---- MODULE Spec2Model ----
(***************************************************************************)
(* Model of sparv-sbx-metadata: the analysis-metadata aggregator           *)
(* (sbx_metadata/analysis_metadata_export.py, specification Spec), the     *)
(* field derivation library (metadata_utils.py, SpecLibrary), the corpus   *)
(* exporters and installers (yaml_export.py, json_export.py, metashare.py, *)
(* SpecCorpus) and the licenceInfo and annotationInfo blocks of the XML    *)
(* serializer (metashare.py, SpecMetashare).                               *)
(*                                                                         *)
(* A YAML document is a Python dict: here a function from a finite set of  *)
(* keys to values.  Scalar values are written as strings holding the       *)
(* scalar's text; the values Python treats as false are written "" (empty  *)
(* string), "null" (None), "false", "0", "[]" and "{}".  A mapping value   *)
(* (a contact record) is written as the text of the mapping.  The value of *)
(* `annotations` is a sequence of annotation names.                        *)
(***************************************************************************)
EXTENDS Integers, Sequences, FiniteSets, TLC

(***************************************************************************)
(* Python dict and truthiness primitives                                   *)
(***************************************************************************)
None == "null"

FalsyValues == {"", "null", "false", "0", "[]", "{}"}

\* bool(v) of a scalar or mapping value
Truthy(v) == v \notin FalsyValues

EmptyDict == [k \in {} |-> None]

\* d.get(k) / the value returned by d.pop(k, None)
Get(d, k) == IF k \in DOMAIN d THEN d[k] ELSE None

\* the dict left behind by d.pop(k, default)
Remove(d, k) == [x \in DOMAIN d \ {k} |-> d[x]]

\* d with d[k] = v
Put(d, k, v) == [x \in DOMAIN d \cup {k} |-> IF x = k THEN v ELSE d[x]]

\* the list returned by data.pop("annotations", None); None and [] are both
\* falsy and the code only tests the truth value before iterating
GetList(d, k) == IF k \in DOMAIN d THEN d[k] ELSE <<>>

\* s.startswith(prefix)
StartsWith(s, prefix) ==
    Len(s) >= Len(prefix) /\ SubSeq(s, 1, Len(prefix)) = prefix

Whitespace == {" ", "\n", "\t"}

RECURSIVE LStrip(_)
LStrip(s) ==
    IF Len(s) > 0 /\ SubSeq(s, 1, 1) \in Whitespace
    THEN LStrip(SubSeq(s, 2, Len(s)))
    ELSE s

RECURSIVE RStrip(_)
RStrip(s) ==
    IF Len(s) > 0 /\ SubSeq(s, Len(s), Len(s)) \in Whitespace
    THEN RStrip(SubSeq(s, 1, Len(s) - 1))
    ELSE s

\* str.strip()
Strip(s) == LStrip(RStrip(s))

(***************************************************************************)
(* metadata_utils constants                                                *)
(***************************************************************************)
DEFAULT_CODE_LICENSE == "MIT"

SBX_DEFAULT_CONTACT ==
    "{name: Markus Forsberg, email: sb-info@svenska.gu.se, affiliation: {organization: Sprakbanken Text, email: sb-info@svenska.gu.se}}"

\* the default of the configuration key sbx_metadata.contact_info
SBX_DEFAULT_SENTINEL == "sbx-default"

(***************************************************************************)
(* The Sparv registry seen by the aggregator: for every module that ships  *)
(* a metadata.yaml, its registered functions.  An annotator lists its      *)
(* Output parameters (name, cls, description) in signature order.          *)
(***************************************************************************)
\* find_metadata_files: regular Sparv modules are added first, plugins after
ModuleOrder == <<"m1", "p1">>

PluginModules == {"p1"}

Registry ==
    [m1 |-> << [f_name |-> "annotate", type |-> "annotator",
                outputs |-> << [name |-> "<token>:m1.pos", cls |-> None, description |-> "Part of speech"],
                               [name |-> "m1.sent", cls |-> "sentence", description |-> "Sentence segments"],
                               [name |-> "m1.{attr}.out", cls |-> None, description |-> "Attribute copy"] >>],
               [f_name |-> "parse", type |-> "importer", outputs |-> <<>>],
               [f_name |-> "csv", type |-> "exporter", outputs |-> <<>>] >>,
     p1 |-> << [f_name |-> "tag", type |-> "annotator",
                outputs |-> << [name |-> "<text>:p1.{x}", cls |-> None, description |-> "Text tag"] >>],
               [f_name |-> "load", type |-> "importer", outputs |-> <<>>],
               [f_name |-> "pretty", type |-> "exporter", outputs |-> <<>>] >>]

RECURSIVE Flatten(_)
Flatten(seqs) ==
    IF seqs = <<>> THEN <<>> ELSE Head(seqs) \o Flatten(Tail(seqs))

\* known["annotations"] keeps insertion order (Output name -> Output object);
\* known["importers"] and known["exporters"] are sets of "<module>:<function>"
collect_known(module_name) ==
    LET functions == Registry[module_name]
        idx == DOMAIN functions
    IN  [annotations |-> Flatten([i \in idx |->
                            IF functions[i].type = "annotator" THEN functions[i].outputs ELSE <<>>]),
         importers |-> {module_name \o ":" \o functions[i].f_name :
                            i \in {j \in idx : functions[j].type = "importer"}},
         exporters |-> {module_name \o ":" \o functions[i].f_name :
                            i \in {j \in idx : functions[j].type = "exporter"}}]

(***************************************************************************)
(* get_annotation_info: wildcard patterns                                  *)
(***************************************************************************)
CharAt(s, i) == SubSeq(s, i, i)

\* the token standing for the regular expression ".+" in a compiled pattern;
\* every other token is one literal character
WILDCARD == ".+"

\* positions q of a closing brace that end a placeholder opened at i: the
\* regular expression \{.+?\} needs at least one character between the braces
Closers(a, i) == {q \in (i + 2)..Len(a) : CharAt(a, q) = "}"}

Min(S) == CHOOSE x \in S : \A y \in S : x <= y

\* re.sub(r"\\{.+?\\}", ".+", re.escape(a)): scanning from the left, a "{"
\* with a later "}" and at least one character in between is replaced, up to
\* the nearest such "}", by ".+"; every other character stays a literal
\* (names hold no backslash and no newline)
RECURSIVE re_sub_placeholders(_, _)
re_sub_placeholders(a, i) ==
    IF i > Len(a) THEN <<>>
    ELSE IF CharAt(a, i) = "{" /\ Closers(a, i) # {}
         THEN <<WILDCARD>> \o re_sub_placeholders(a, Min(Closers(a, i)) + 1)
         ELSE <<CharAt(a, i)>> \o re_sub_placeholders(a, i + 1)

\* mutant of re_fullmatch_from: the placeholder is compiled to ".*" and also
\* matches the empty string
RECURSIVE re_fullmatch_from_star(_, _, _, _)
re_fullmatch_from_star(pattern, ti, annotation, si) ==
    IF ti > Len(pattern) THEN si > Len(annotation)
    ELSE IF pattern[ti] = WILDCARD
         THEN \E n \in 0..(Len(annotation) - si + 1) :
                  re_fullmatch_from_star(pattern, ti + 1, annotation, si + n)
         ELSE /\ si <= Len(annotation)
              /\ CharAt(annotation, si) = pattern[ti]
              /\ re_fullmatch_from_star(pattern, ti + 1, annotation, si + 1)

\* re.fullmatch(pattern, annotation) for a pattern of literals and ".+",
\* matching pattern[ti..] against annotation[si..]
RECURSIVE re_fullmatch_from(_, _, _, _)
re_fullmatch_from(pattern, ti, annotation, si) ==
    IF ti > Len(pattern) THEN si > Len(annotation)
    ELSE IF pattern[ti] = WILDCARD
         THEN \E n \in 1..(Len(annotation) - si + 1) :
                  re_fullmatch_from(pattern, ti + 1, annotation, si + n)
         ELSE /\ si <= Len(annotation)
              /\ CharAt(annotation, si) = pattern[ti]
              /\ re_fullmatch_from(pattern, ti + 1, annotation, si + 1)

re_fullmatch(pattern, annotation) == re_fullmatch_from(pattern, 1, annotation, 1)

\* known_annotation_patterns, in the insertion order of known["annotations"]
known_annotation_patterns(known) ==
    [i \in DOMAIN known.annotations |->
        [pattern |-> re_sub_placeholders(known.annotations[i].name, 1),
         info |-> known.annotations[i]]]

SeqToSet(seq) == {seq[i] : i \in DOMAIN seq}

\* get_annotation_info: annotation_info maps every matched annotation to the
\* Output of the first pattern that matches it; unknown_annotations is the set
\* of annotations no pattern matches
get_annotation_info(annotations, known) ==
    LET patterns == known_annotation_patterns(known)
        hits(a) == {i \in DOMAIN patterns : re_fullmatch(patterns[i].pattern, a)}
        matched == {a \in SeqToSet(annotations) : hits(a) # {}}
    IN  [annotation_info |-> [a \in matched |-> patterns[Min(hits(a))].info],
         unknown_annotations |-> SeqToSet(annotations) \ matched]

(***************************************************************************)
(* Generated examples and analysis unit                                    *)
(***************************************************************************)
\* In the example texts below the backquotes of the Markdown source are
\* written as single quotes.
RECURSIVE Join(_, _)
Join(lines, sep) ==
    IF lines = <<>> THEN ""
    ELSE IF Len(lines) = 1 THEN lines[1]
    ELSE lines[1] \o sep \o Join(Tail(lines), sep)

\* generate_analysis_example
generate_analysis_example(data, annotations, annotation_info, plugin_modules, module_name, example_output, example_extra) ==
    LET is_plugin == module_name \in plugin_modules
        plugin_url == Get(data, "plugin_url")
        data1 == IF is_plugin THEN Remove(data, "plugin_url") ELSE data
        plugin_link == IF Truthy(plugin_url)
                       THEN "[" \o module_name \o "](" \o plugin_url \o ")"
                       ELSE module_name
        plugin_info ==
            IF is_plugin
            THEN "You also need to install the following plugin: *" \o plugin_link \o "*.\n\n"
                 \o "For general information on how to install plugins, see [here]"
                 \o "(https://spraakbanken.gu.se/sparv/#/user-manual/installation-and-setup?id=plugins).\n\n"
            ELSE ""
        extra == IF Truthy(example_extra) THEN example_extra \o "\n\n" ELSE ""
        annotations_list ==
            Join([i \in DOMAIN annotations |->
                    "- " \o annotations[i] \o "  # " \o annotation_info[annotations[i]].description],
                 "\n")
        generated ==
            "This analysis is used with Sparv. Check out [Sparv's quick start guide]"
            \o "(https://spraakbanken.gu.se/sparv/#/user-manual/quick-start) to get started!\n"
            \o "\n"
            \o "To use this analysis, add the following "
            \o "line" \o (IF Len(annotations) > 1 THEN "s" ELSE "") \o " under 'export.annotations' in the Sparv "
            \o "[corpus configuration file]"
            \o "(https://spraakbanken.gu.se/sparv/#/user-manual/quick-start?id=creating-the-config-file):\n"
            \o "\n"
            \o "'''yaml\n"
            \o annotations_list \o "\n"
            \o "'''\n"
            \o "\n"
            \o extra
            \o plugin_info
            \o "For more info on how to use Sparv, check out the [Sparv documentation]"
            \o "(https://spraakbanken.gu.se/sparv).\n"
        data2 == IF ~Truthy(Get(data1, "example"))
                 THEN Put(data1, "example", generated)
                 ELSE data1
    IN  IF Truthy(example_output)
        THEN Put(data2, "example",
                 data2["example"] \o "\nExample output:\n" \o Strip(example_output))
        ELSE data2

\* generate_utility_example
generate_utility_example(data, handler, handler_type, example_extra) ==
    LET extra == IF Truthy(example_extra) THEN example_extra \o "\n\n" ELSE ""
        generated ==
            "This " \o handler_type \o " is used with Sparv. Check out [Sparv's quick start guide]"
            \o "(https://spraakbanken.gu.se/sparv/#/user-manual/quick-start) to get started!\n"
            \o "\n"
            \o "To use this " \o handler_type \o ", run Sparv with the argument '" \o handler \o "':\n\n"
            \o "'''sh\n"
            \o "sparv run " \o handler \o "\n"
            \o "'''\n"
            \o "\n"
            \o extra
            \o "For more info on how to use Sparv, check out the [Sparv documentation]"
            \o "(https://spraakbanken.gu.se/sparv).\n"
    IN  IF ~Truthy(Get(data, "example"))
        THEN Put(data, "example", generated)
        ELSE data

Units == <<"token", "sentence", "paragraph", "text">>

\* the unit an annotation stands for, by the four tests of the loop body in
\* their order, or None
unit_of(annotation, annotation_info) ==
    LET fits(u) == \/ StartsWith(annotation, "<" \o Units[u] \o ">")
                   \/ annotation_info[annotation].cls = Units[u]
        us == {u \in DOMAIN Units : fits(u)}
    IN  IF us = {} THEN None ELSE Units[Min(us)]

\* mutant of set_analysis_unit: the last annotation that stands for a unit
\* decides, not the first
set_analysis_unit_last_match(data, annotations, annotation_info) ==
    LET found == {i \in DOMAIN annotations : unit_of(annotations[i], annotation_info) # None}
        last_found == CHOOSE i \in found : \A j \in found : j <= i
    IN  IF "analysis_unit" \notin DOMAIN data /\ annotations # <<>> /\ found # {}
        THEN Put(data, "analysis_unit", unit_of(annotations[last_found], annotation_info))
        ELSE data

\* set_analysis_unit
set_analysis_unit(data, annotations, annotation_info) ==
    LET found == {i \in DOMAIN annotations : unit_of(annotations[i], annotation_info) # None}
    IN  IF "analysis_unit" \notin DOMAIN data /\ annotations # <<>> /\ found # {}
        THEN Put(data, "analysis_unit", unit_of(annotations[Min(found)], annotation_info))
        ELSE data

(***************************************************************************)
(* create_export_files: the body of the loop over one module's documents   *)
(***************************************************************************)
\* export_dir_analysis and export_dir_utility, relative to the export root
export_dir_analysis == "analysis"

export_dir_utility == "utility"

\* mutant of inherit_parent: the update runs the wrong way round, the keys of
\* the parent overwrite the keys of the document
inherit_parent_parent_wins(data, parents_) ==
    LET parent_id == Get(data, "parent")
        own == Remove(data, "parent")
    IN  IF ~Truthy(parent_id) THEN [raised |-> FALSE, data |-> own]
        ELSE IF parent_id \notin DOMAIN parents_ THEN [raised |-> TRUE, data |-> own]
        ELSE [raised |-> FALSE, data |-> parents_[parent_id] @@ own]

\* mutant of inherit_parent: one level only, an abstract document does not
\* inherit
inherit_parent_one_level(data, parents_) ==
    LET parent_id == Get(data, "parent")
        own == Remove(data, "parent")
    IN  IF ~Truthy(parent_id) THEN [raised |-> FALSE, data |-> own]
        ELSE IF parent_id \notin DOMAIN parents_ THEN [raised |-> TRUE, data |-> own]
        ELSE IF Truthy(Get(own, "abstract")) THEN [raised |-> FALSE, data |-> own]
        ELSE [raised |-> FALSE, data |-> own @@ parents_[parent_id]]

\* lines 81-84: data.pop("parent"), then the document's own keys are laid
\* over a copy of the stored parent; raised is the KeyError of
\* parents[parent_id] for an id that no abstract document has stored
inherit_parent(data, parents_) ==
    LET parent_id == Get(data, "parent")
        own == Remove(data, "parent")
    IN  IF ~Truthy(parent_id) THEN [raised |-> FALSE, data |-> own]
        ELSE IF parent_id \notin DOMAIN parents_ THEN [raised |-> TRUE, data |-> own]
        ELSE [raised |-> FALSE, data |-> own @@ parents_[parent_id]]

\* mutant of is_abstract: the flag is looked up after it was popped
is_abstract_never(data) == FALSE

\* line 86: data.pop("abstract", False)
is_abstract(data) == Truthy(Get(data, "abstract"))

\* mutant of is_duplicate: the id is looked up in an empty set
is_duplicate_never(analysis_id, all_ids_) == analysis_id \in {}

\* line 93: analysis_id in all_ids
is_duplicate(analysis_id, all_ids_) == analysis_id \in all_ids_

\* line 101: data.get("type") == "analysis" or annotations
is_analysis(data, annotations) ==
    Get(data, "type") = "analysis" \/ annotations # <<>>

\* line 125: data.get("type") == "utility" or data.get("sparv_handler")
is_utility(data) ==
    Get(data, "type") = "utility" \/ Truthy(Get(data, "sparv_handler"))

\* mutant of handler_type_of: the final else branch is missing, a handler
\* that is no importer counts as an exporter
handler_type_of_no_else(handler, known) ==
    IF handler \in known.importers THEN "importer" ELSE "exporter"

\* lines 130-136: the handler type, or None for an unknown handler
handler_type_of(handler, known) ==
    IF handler \in known.importers THEN "importer"
    ELSE IF handler \in known.exporters THEN "exporter"
    ELSE None

\* mutant of set_code_license: the plugin test is missing
set_code_license_plugins_too(data, module, plugin_modules) ==
    IF ~Truthy(Get(data, "license"))
    THEN Put(data, "license", DEFAULT_CODE_LICENSE)
    ELSE data

\* lines 144-145
set_code_license(data, module, plugin_modules) ==
    IF module \notin plugin_modules /\ ~Truthy(Get(data, "license"))
    THEN Put(data, "license", DEFAULT_CODE_LICENSE)
    ELSE data

\* mutant of set_contact_info: the configured value is copied as it is
set_contact_info_unresolved(data, md_contact_) ==
    IF ~Truthy(Get(data, "contact_info")) /\ Truthy(md_contact_)
    THEN Put(data, "contact_info", md_contact_)
    ELSE data

\* lines 147-148
set_contact_info(data, md_contact_) ==
    IF ~Truthy(Get(data, "contact_info")) /\ Truthy(md_contact_)
    THEN Put(data, "contact_info",
             IF md_contact_ = SBX_DEFAULT_SENTINEL THEN SBX_DEFAULT_CONTACT ELSE md_contact_)
    ELSE data

\* mutant of remove_empty_fields: the filter is missing
remove_empty_fields_keep_all(data) == data

\* line 151: {k: v for k, v in data.items() if v}
remove_empty_fields(data) ==
    [k \in {x \in DOMAIN data : Truthy(data[x])} |-> data[k]]

\* mutant of output_path: every file goes to the analysis directory
output_path_one_dir(export_dir, analysis_id) == <<export_dir_analysis, analysis_id \o ".yaml">>

\* line 154: export_dir / f"{analysis_id}.yaml"
output_path(export_dir, analysis_id) == <<export_dir, analysis_id \o ".yaml">>

\* yaml_export.py lines 113-117, json_export.py lines 86-90 and
\* metashare.py lines 187-188: the contact_info of the corpus record
corpus_contact_info(md_contact_) ==
    IF md_contact_ = SBX_DEFAULT_SENTINEL THEN SBX_DEFAULT_CONTACT ELSE md_contact_

\* lines 143-156 for a validated document: the path and the written data
\* (the file text is WARNING_MESSAGE followed by the YAML dump of the data)
finish_document(data, export_dir, analysis_id, module_name, plugin_modules, md_contact_) ==
    [path |-> output_path(export_dir, analysis_id),
     data |-> remove_empty_fields(
                  set_contact_info(
                      set_code_license(data, module_name, plugin_modules), md_contact_))]

NoWrite == [path |-> <<None, None>>, data |-> EmptyDict]

\* mutant of parents_after_merge: without the copy the update of line 83 is
\* made on the stored record itself
parents_after_merge_no_copy(parents_, parent_id, merged) ==
    IF Truthy(parent_id) /\ parent_id \in DOMAIN parents_
    THEN [x \in DOMAIN parents_ |-> IF x = parent_id THEN merged ELSE parents_[x]]
    ELSE parents_

\* line 82: the document is laid over parents[parent_id].copy(), a new dict,
\* and every later pop and assignment of the loop body acts on that new dict;
\* the values are strings and lists that the loop body never changes in
\* place: the stored records are as they were
parents_after_merge(parents_, parent_id, merged) == parents_

\* mutant of reserve_id: the id is not added
reserve_id_never(all_ids_, analysis_id) == all_ids_

\* line 96: all_ids.add(analysis_id), right after the duplicate test and
\* before the document is classified and validated
reserve_id(all_ids_, analysis_id) == all_ids_ \cup {analysis_id}

\* The outcome of one pass through the loop body (lines 79-156) for the
\* document `doc` of module `module_name`:
\*   outcome      how the pass ended: "KeyError" (uncaught, ends the run),
\*                "abstract" (stored), "written", or the logged error
\*   merged       data after line 84
\*   parents, all_ids   the two per-module collections after the pass
\*   write        the file written, or NoWrite
process_document(doc, module_name, parents_, all_ids_, plugin_modules, md_contact_) ==
    LET known == collect_known(module_name)
        inherited == inherit_parent(doc, parents_)
        merged == inherited.data
        data1 == Remove(merged, "abstract")
        analysis_id == data1["id"]
        data2 == Remove(data1, "id")
        annotations == GetList(data2, "annotations")
        example_output == Get(data2, "example_output")
        example_extra == Get(data2, "example_extra")
        data3 == Remove(Remove(Remove(data2, "annotations"), "example_output"), "example_extra")
        info == get_annotation_info(annotations, known)
        handler == Get(data3, "sparv_handler")
        handler_type == handler_type_of(handler, known)
        kept == parents_after_merge(parents_, Get(doc, "parent"), merged)
        base == [outcome |-> "KeyError", merged |-> merged, analysis_id |-> None,
                 parents |-> kept, all_ids |-> all_ids_, write |-> NoWrite]
        reserved == [base EXCEPT !.analysis_id = analysis_id,
                                 !.all_ids = reserve_id(all_ids_, analysis_id)]
    IN  IF inherited.raised THEN base
        ELSE IF is_abstract(merged)
        THEN [base EXCEPT !.outcome = "abstract",
                          !.parents = [x \in DOMAIN kept \cup {data1["id"]} |->
                                          IF x = data1["id"] THEN data1 ELSE kept[x]]]
        ELSE IF is_duplicate(analysis_id, all_ids_)
        THEN [base EXCEPT !.outcome = "duplicate id", !.analysis_id = analysis_id]
        ELSE IF is_analysis(data3, annotations)
        THEN IF annotations = <<>>
             THEN [reserved EXCEPT !.outcome = "no annotations"]
             ELSE IF info.unknown_annotations # {}
             THEN [reserved EXCEPT !.outcome = "unknown annotations"]
             ELSE [reserved EXCEPT
                     !.outcome = "written",
                     !.write = finish_document(
                         generate_analysis_example(
                             set_analysis_unit(Put(data3, "type", "analysis"),
                                               annotations, info.annotation_info),
                             annotations, info.annotation_info, plugin_modules,
                             module_name, example_output, example_extra),
                         export_dir_analysis, analysis_id, module_name,
                         plugin_modules, md_contact_)]
        ELSE IF is_utility(data3)
        THEN IF handler_type = None
             THEN [reserved EXCEPT !.outcome = "unknown handler"]
             ELSE [reserved EXCEPT
                     !.outcome = "written",
                     !.write = finish_document(
                         generate_utility_example(
                             Remove(Put(data3, "type", "utility"), "sparv_handler"),
                             handler, handler_type, example_extra),
                         export_dir_utility, analysis_id, module_name,
                         plugin_modules, md_contact_)]
        ELSE [reserved EXCEPT !.outcome = "unknown type"]

\* the outcomes that log an error (logger.error) and skip the document
ErrorOutcomes ==
    {"duplicate id", "no annotations", "unknown annotations", "unknown handler", "unknown type"}

(***************************************************************************)
(* Inputs of a run                                                         *)
(***************************************************************************)
\* documents read by one run of the aggregator, over all modules
MaxDocs == 3

Absent == "<absent>"

AbsentList == <<Absent>>

DocKeys ==
    {"id", "parent", "abstract", "type", "annotations", "sparv_handler", "license",
     "contact_info", "description", "analysis_unit", "example", "example_output",
     "example_extra", "plugin_url"}

IsPresent(r, k) ==
    /\ k \in DOMAIN r
    /\ IF k = "annotations" THEN r[k] # AbsentList ELSE r[k] # Absent

\* the YAML document holding the fields of r that are not Absent
MkDoc(r) == [k \in {x \in DOMAIN r : IsPresent(r, x)} |-> r[k]]

DOC_CONTACT == "{name: Module Author, email: author@example.org}"

CUSTOM_CONTACT == "{name: Corpus Owner, email: owner@example.org}"

\* values of the configuration key sbx_metadata.contact_info: the default
\* sentinel, a contact record, an empty mapping
ContactConfigs == {SBX_DEFAULT_SENTINEL, CUSTOM_CONTACT, "{}"}

\* abstract documents (they declare a license), documents that inherit
\* from them, repeated ids
InheritanceDocs ==
    {MkDoc([id |-> i, parent |-> p, abstract |-> ab,
            license |-> IF ab = "true" THEN "GPL" ELSE Absent,
            annotations |-> <<"<token>:m1.pos">>]) :
        i \in {"a", "b"}, p \in {Absent, "a"}, ab \in {Absent, "true"}}
    \cup {MkDoc([id |-> "b", parent |-> "a", abstract |-> "false", license |-> "BSD"]),
          MkDoc([id |-> "a", abstract |-> "true", type |-> "utility",
                 sparv_handler |-> "p1:load", description |-> ""]),
          MkDoc([id |-> "b", parent |-> "a"])}

\* analysis documents: annotation lists against the outputs of the module
AnalysisDocs ==
    {MkDoc([id |-> i, type |-> t, annotations |-> an]) :
        i \in {"a", "b"}, t \in {Absent, "analysis"},
        an \in {AbsentList, <<"m1.sent", "m1.x.out">>, <<"<token>:m1.pos", "m1.nope">>}}

\* analysis documents: placeholders, empty lists, outputs of the plugin
WildcardDocs ==
    {MkDoc([id |-> i, type |-> t, annotations |-> an]) :
        i \in {"a", "b"}, t \in {"analysis", "utility"},
        an \in {<<>>, <<"m1..out">>, <<"<text>:p1.lang", "<text>:p1.{x}">>}}

\* utility documents: types and handlers
UtilityDocs ==
    {MkDoc([id |-> i, type |-> t, sparv_handler |-> h]) :
        i \in {"a", "b"}, t \in {Absent, "utility", "script"}, h \in {Absent, "m1:parse"}}

\* utility documents: handlers against the importers and exporters of the
\* module; one document with both annotations and a handler
HandlerDocs ==
    {MkDoc([id |-> i, type |-> t, sparv_handler |-> h]) :
        i \in {"a", "b"}, t \in {Absent, "utility"},
        h \in {"p1:pretty", "m1:annotate", "m1:csv"}}
    \cup {MkDoc([id |-> "a", type |-> "utility", sparv_handler |-> "m1:csv",
                 annotations |-> <<"m1.sent">>])}

\* license and contact_info, for a regular module (id a) and a plugin (id b)
LicenseDocs ==
    {MkDoc([id |-> i, license |-> l, contact_info |-> c,
            annotations |-> IF i = "a" THEN <<"m1.{attr}.out">> ELSE <<"<text>:p1.lang">>]) :
        i \in {"a", "b"}, l \in {Absent, "", "GPL"}, c \in {Absent, DOC_CONTACT}}

\* optional fields with empty and non-empty values, manual examples
FieldDocs ==
    {MkDoc([id |-> "a", annotations |-> <<"m1.sent">>, description |-> d]) :
        d \in FalsyValues \cup {"A description"}}
    \cup {MkDoc([id |-> "b", type |-> "utility", sparv_handler |-> "p1:load",
                 example |-> e, example_extra |-> " More.\n", contact_info |-> "{}"]) :
            e \in {Absent, "Run it."}}
    \cup {MkDoc([id |-> "b", annotations |-> <<"<text>:p1.lang">>, analysis_unit |-> "",
                 plugin_url |-> "https://example.org/p1", example_output |-> " <out/>\n"])}
    \cup {MkDoc([id |-> "c", annotations |-> <<"m1.sent">>, contact_info |-> SBX_DEFAULT_SENTINEL])}

\* analysis documents with and without a declared analysis_unit, over
\* annotation lists whose first unit annotation comes first or later
UnitDocs ==
    {MkDoc([id |-> i, analysis_unit |-> u, annotations |-> an]) :
        i \in {"a", "b"}, u \in {Absent, "document"},
        an \in {<<"m1.x.out", "m1.sent", "<token>:m1.pos">>,
                <<"<token>:m1.pos", "m1.sent">>, <<"m1.x.out">>}}

\* chains of abstract documents: a declares, b inherits from a and is
\* abstract itself, c, d and e inherit from b or a; one abstract document
\* that inherits its id
ChainDocs ==
    {MkDoc([id |-> "a", abstract |-> "true", license |-> "GPL",
            description |-> "from a", annotations |-> <<"<token>:m1.pos">>]),
     MkDoc([id |-> "b", parent |-> "a", abstract |-> "true", license |-> "BSD"]),
     MkDoc([id |-> "c", parent |-> "b"]),
     MkDoc([id |-> "d", parent |-> "b", description |-> "own"]),
     MkDoc([id |-> "e", parent |-> "a"]),
     MkDoc([parent |-> "a", abstract |-> "true", license |-> "LGPL"])}

\* the sets of documents the metadata files of one run are drawn from
Pools ==
    <<InheritanceDocs, AnalysisDocs, WildcardDocs, UtilityDocs, HandlerDocs,
      LicenseDocs, FieldDocs, UnitDocs, ChainDocs>>

(***************************************************************************)
(* State                                                                   *)
(***************************************************************************)
VARIABLES
    md_contact,       \* Config("sbx_metadata.contact_info")
    doc_pool,         \* which of Pools the metadata files are drawn from
    module_idx,       \* position of the loop over metadata_files
    parents,          \* abstract documents stored for the current module
    all_ids,          \* ids reserved in the current module
    files,            \* the export directory: path -> written data
    written_counter,
    log,              \* logger.error and logger.debug calls, in order
    pc,               \* "run", "done" (returned) or "KeyError" (raised)
    docs_read,        \* documents read so far
    last,             \* the document read last and what became of it
    call,             \* the last call of a metadata_utils function and its result
    config,           \* the corpus configuration and counters the host supplies
    local_files,      \* the corpus export directory: file name -> content
    remote_files,     \* files on remote hosts: <<host, path>> -> content
    markers,          \* the install and uninstall markers that are written
    result            \* the last exporter or installer run and how it ended

\* the state of create_export_files
aggregator_vars ==
    <<md_contact, doc_pool, module_idx, parents, all_ids, files, written_counter,
      log, pc, docs_read, last>>

\* the state of the corpus exporters and installers
corpus_vars == <<config, local_files, remote_files, markers, result>>

vars ==
    <<md_contact, doc_pool, module_idx, parents, all_ids, files, written_counter,
      log, pc, docs_read, last, call, config, local_files, remote_files, markers, result>>

module_name == ModuleOrder[module_idx]

NoFiles == [p \in {} |-> EmptyDict]

NoParents == [i \in {} |-> EmptyDict]

NoLast ==
    [doc |-> EmptyDict, outcome |-> "none", merged |-> EmptyDict, analysis_id |-> None,
     module_name |-> None, write |-> NoWrite, parents_before |-> NoParents]

\* no metadata_utils function has been called
NoCall == [fn |-> "none"]

\* no corpus is configured, nothing is exported or installed
NoConfig == [corpus_id |-> None]

NoResult == [op |-> "none", raised |-> None, detail |-> EmptyDict]

NoCorpus ==
    /\ config = NoConfig
    /\ local_files = NoFiles
    /\ remote_files = NoFiles
    /\ markers = {}
    /\ result = NoResult

Init ==
    /\ call = NoCall
    /\ NoCorpus
    /\ md_contact \in ContactConfigs
    /\ doc_pool \in DOMAIN Pools
    /\ module_idx = 1
    /\ parents = NoParents
    /\ all_ids = {}
    /\ files = NoFiles
    /\ written_counter = 0
    /\ log = <<>>
    /\ pc = "run"
    /\ docs_read = 0
    /\ last = NoLast

\* a logger.error or logger.debug call of the loop body; msg is the outcome it
\* reports, and the record notes the module whose file was being read
LogRecord(level, msg, analysis_id, module) ==
    [level |-> level, msg |-> msg, analysis_id |-> analysis_id, module_name |-> module]

\* one pass through the loop body for the next document of the current file
ProcessDocument ==
    /\ pc = "run"
    /\ docs_read < MaxDocs
    /\ \E doc \in Pools[doc_pool] :
          \E r \in {process_document(doc, module_name, parents, all_ids,
                                    PluginModules, md_contact)} :
              /\ pc' = IF r.outcome = "KeyError" THEN "KeyError" ELSE "run"
              /\ parents' = r.parents
              /\ all_ids' = r.all_ids
              /\ files' = IF r.outcome = "written"
                          THEN [p \in DOMAIN files \cup {r.write.path} |->
                                   IF p = r.write.path THEN r.write.data ELSE files[p]]
                          ELSE files
              /\ written_counter' = IF r.outcome = "written"
                                    THEN written_counter + 1 ELSE written_counter
              /\ log' = IF r.outcome \in ErrorOutcomes
                        THEN Append(log, LogRecord("error", r.outcome, r.analysis_id, module_name))
                        ELSE IF r.outcome = "written"
                        THEN Append(log, LogRecord("debug", "written", r.analysis_id, module_name))
                        ELSE log
              /\ last' = [doc |-> doc, outcome |-> r.outcome, merged |-> r.merged,
                          analysis_id |-> r.analysis_id, module_name |-> module_name,
                          write |-> r.write, parents_before |-> parents]
    /\ docs_read' = docs_read + 1
    /\ UNCHANGED <<md_contact, doc_pool, module_idx, call, corpus_vars>>

\* the file of the current module is exhausted: lines 69-76 for the next one
NextModule ==
    /\ pc = "run"
    /\ module_idx < Len(ModuleOrder)
    /\ module_idx' = module_idx + 1
    /\ parents' = NoParents
    /\ all_ids' = {}
    /\ last' = NoLast
    /\ UNCHANGED <<md_contact, doc_pool, files, written_counter, log, pc, docs_read,
                   call, corpus_vars>>

\* the last file is exhausted: return written_counter
Finish ==
    /\ pc = "run"
    /\ module_idx = Len(ModuleOrder)
    /\ pc' = "done"
    /\ UNCHANGED <<md_contact, doc_pool, module_idx, parents, all_ids, files,
                   written_counter, log, docs_read, last, call, corpus_vars>>

Next == ProcessDocument \/ NextModule \/ Finish

Spec == Init /\ [][Next]_vars

TypeOK ==
    /\ pc \in {"run", "done", "KeyError"}
    /\ module_idx \in DOMAIN ModuleOrder
    /\ written_counter \in 0..MaxDocs
    /\ docs_read \in 0..MaxDocs

(***************************************************************************)
(* Properties                                                              *)
(***************************************************************************)
\* the last action read a document and ran the loop body on it
DocumentRead == last.outcome # "none"

\* the document read last names a parent
DeclaresParent == DocumentRead /\ Truthy(Get(last.doc, "parent"))

\* the parent record the document read last refers to
ParentRecord == last.parents_before[last.doc["parent"]]

ParentResolved == DeclaresParent /\ last.doc["parent"] \in DOMAIN last.parents_before

LogIndices(level, msgs, module, id) ==
    {i \in DOMAIN log : /\ log[i].level = level
                        /\ log[i].msg \in msgs
                        /\ log[i].module_name = module
                        /\ log[i].analysis_id = id}

LastLogged == log[Len(log)]

\* C1: a document whose parent id has not been stored by an earlier abstract
\* document of the same file is skipped with a logged error, nothing is
\* written for it and the run goes on with the documents that follow.
C1_UnresolvedParentIsSkipped ==
    (DeclaresParent /\ ~ParentResolved) =>
        /\ pc # "KeyError"
        /\ last.write = NoWrite
        /\ Len(log) > 0
        /\ LastLogged.level = "error"

\* C2: for a document B with `parent: A`, A stored earlier, the merged B holds
\* every key of A that B does not declare with A's value and every key B
\* declares with B's value; no written document has an `abstract` or a
\* `parent` key.
C2_ChildOverridesParent ==
    /\ ParentResolved =>
          /\ \A k \in DOMAIN ParentRecord \ DOMAIN last.doc :
                k \in DOMAIN last.merged /\ last.merged[k] = ParentRecord[k]
          /\ \A k \in DOMAIN last.doc \ {"parent"} :
                k \in DOMAIN last.merged /\ last.merged[k] = last.doc[k]
          /\ DOMAIN last.merged = (DOMAIN ParentRecord \cup DOMAIN last.doc) \ {"parent"}
    /\ \A p \in DOMAIN files : DOMAIN files[p] \cap {"abstract", "parent"} = {}

\* C2 witness: a child that inherits a key it does not declare and overrides
\* one it does declare has been written
C2_Witness ==
    /\ ParentResolved
    /\ last.outcome = "written"
    /\ "license" \in DOMAIN ParentRecord \ DOMAIN last.doc
    /\ last.write.data["license"] = ParentRecord["license"]
    /\ ParentRecord["id"] # last.doc["id"]
    /\ files[last.write.path] = last.write.data

ValidationErrors ==
    {"no annotations", "unknown annotations", "unknown handler", "unknown type"}

\* C3 as stated: when exactly two non-abstract documents of a module share an
\* id (the second one drew the only duplicate-id error for it), that error is
\* the only error logged for the id.
C3_ExactlyOneErrorForTheId ==
    \A i \in DOMAIN log :
        (log[i].level = "error" /\ log[i].msg = "duplicate id"
         /\ Cardinality(LogIndices("error", {"duplicate id"}, log[i].module_name, log[i].analysis_id)) = 1)
        => Cardinality(LogIndices("error", ErrorOutcomes, log[i].module_name, log[i].analysis_id)) = 1

\* C3 amended: the second document is skipped with one duplicate-id error of
\* its own and without a file; together with a validation error of the first
\* document at most two errors name the id, at most one file is written for
\* the id from the module, none if the first document was rejected, and the
\* run goes on.
C3_DuplicateIsSkipped ==
    /\ last.outcome = "duplicate id" =>
          /\ pc # "KeyError"
          /\ last.write = NoWrite
          /\ LastLogged = LogRecord("error", "duplicate id", last.analysis_id, last.module_name)
    /\ \A i \in DOMAIN log :
          LET m == log[i].module_name
              id == log[i].analysis_id
              dups == Cardinality(LogIndices("error", {"duplicate id"}, m, id))
              rejected == Cardinality(LogIndices("error", ValidationErrors, m, id))
              written == Cardinality(LogIndices("debug", {"written"}, m, id))
          IN  /\ written + rejected = 1
              /\ dups = 1 => Cardinality(LogIndices("error", ErrorOutcomes, m, id)) \in {1, 2}

\* C3 witness: after a duplicate was skipped, a document with another id of
\* the same module has been written
C3_Witness ==
    /\ last.outcome = "written"
    /\ \E i \in DOMAIN log :
          /\ log[i] = LogRecord("error", "duplicate id", log[i].analysis_id, last.module_name)
          /\ log[i].analysis_id # last.analysis_id

\* C4: an abstract document is stored under its id and nothing else happens:
\* no file is written, the written count and the log stay as they were.
C4_AbstractIsNeverEmitted ==
    /\ [](DocumentRead /\ last.outcome # "KeyError" /\ Truthy(Get(last.merged, "abstract"))
            => /\ last.outcome = "abstract"
               /\ last.write = NoWrite
               /\ parents[last.merged["id"]] = Remove(last.merged, "abstract"))
    /\ [](last.outcome = "abstract" => Truthy(Get(last.merged, "abstract")))
    /\ [][last'.outcome = "abstract" /\ docs_read' # docs_read
            => /\ files' = files
               /\ written_counter' = written_counter
               /\ log' = log
               /\ all_ids' = all_ids]_vars

\* C4 witness: an abstract document was stored while a file was already there
C4_Witness ==
    /\ last.outcome = "abstract"
    /\ last.merged["id"] \in DOMAIN parents
    /\ written_counter > 0

\* the loop body went past the duplicate test: the document was classified
Classified == last.outcome \in ValidationErrors \cup {"written"}

Written == last.outcome = "written"

\* the last pass logged an error for its document and wrote nothing
SkippedWithError(msgs) ==
    /\ last.outcome \in msgs
    /\ last.write = NoWrite
    /\ Len(log) > 0
    /\ LastLogged = LogRecord("error", last.outcome, last.analysis_id, last.module_name)

\* the Output names the annotators of a module declare
DeclaredOutputs(module) ==
    UNION {{Registry[module][i].outputs[j].name : j \in DOMAIN Registry[module][i].outputs} :
             i \in {x \in DOMAIN Registry[module] : Registry[module][x].type = "annotator"}}

\* the placeholder segments of a declared name: <<i, q>> with "{" at i, "}" at
\* q, at least one character and no brace in between
Placeholders(name) ==
    {s \in {i \in 1..Len(name) : CharAt(name, i) = "{"} \X {q \in 1..Len(name) : CharAt(name, q) = "}"} :
        /\ s[2] > s[1] + 1
        /\ \A x \in (s[1] + 1)..(s[2] - 1) : CharAt(name, x) \notin {"{", "}"}}

NonEmptySubstrings(a) == {SubSeq(a, i, j) : <<i, j>> \in {<<x, y>> \in (1..Len(a)) \X (1..Len(a)) : x <= y}}

\* name[i..] with every placeholder <<p, q>> replaced by sub[<<p, q>>]
RECURSIVE Substitute(_, _, _)
Substitute(name, i, sub) ==
    LET ahead == {s \in DOMAIN sub : s[1] >= i}
    IN  IF ahead = {} THEN SubSeq(name, i, Len(name))
        ELSE LET s == CHOOSE x \in ahead : \A y \in ahead : x[1] <= y[1]
             IN  SubSeq(name, i, s[1] - 1) \o sub[s] \o Substitute(name, s[2] + 1, sub)

\* a declared name stands for an annotation: they are equal, or the name has
\* placeholders and some choice of non-empty substrings for them yields the
\* annotation
StandsFor(name, annotation) ==
    \/ name = annotation
    \/ /\ Placeholders(name) # {}
       /\ \E sub \in [Placeholders(name) -> NonEmptySubstrings(annotation)] :
             Substitute(name, 1, sub) = annotation

AnnotationsOfLast == GetList(last.merged, "annotations")

AllAnnotationsDeclared ==
    /\ AnnotationsOfLast # <<>>
    /\ \A i \in DOMAIN AnnotationsOfLast :
          \E name \in DeclaredOutputs(last.module_name) : StandsFor(name, AnnotationsOfLast[i])

AnalysisType == Get(last.merged, "type") = "analysis" \/ AnnotationsOfLast # <<>>

\* C5: an analysis-type document is written only if its annotations list is
\* not empty and every annotation is an output the module declares, by
\* equality or with placeholders standing for non-empty substrings; otherwise
\* it is skipped with an error and without a file.
C5_AnalysisNeedsDeclaredAnnotations ==
    /\ (Written /\ last.write.path[1] = export_dir_analysis) =>
          AnalysisType /\ AllAnnotationsDeclared
    /\ (Classified /\ AnalysisType /\ ~AllAnnotationsDeclared) =>
          SkippedWithError({"no annotations", "unknown annotations"})

\* C5 witness: a written analysis document with an annotation that is not the
\* text of a declared name but an instance of a placeholder
C5_Witness ==
    /\ Written
    /\ last.write.path[1] = export_dir_analysis
    /\ \E i \in DOMAIN AnnotationsOfLast :
          AnnotationsOfLast[i] \notin DeclaredOutputs(last.module_name)

\* the names "<module>:<function>" of the importers and exporters of a module
RegisteredHandlers(module) ==
    {module \o ":" \o Registry[module][i].f_name :
        i \in {x \in DOMAIN Registry[module] : Registry[module][x].type \in {"importer", "exporter"}}}

UtilityType ==
    /\ ~AnalysisType
    /\ Get(last.merged, "type") = "utility" \/ Truthy(Get(last.merged, "sparv_handler"))

\* C6: a utility-type document is written only if its sparv_handler names an
\* importer or exporter of the same module; with a missing or unknown handler
\* it is skipped with an error and without a file; a written utility
\* document has no sparv_handler key.
C6_UtilityNeedsRegisteredHandler ==
    /\ (Written /\ last.write.path[1] = export_dir_utility) =>
          /\ UtilityType
          /\ Get(last.merged, "sparv_handler") \in RegisteredHandlers(last.module_name)
          /\ "sparv_handler" \notin DOMAIN last.write.data
    /\ (Classified /\ UtilityType
          /\ Get(last.merged, "sparv_handler") \notin RegisteredHandlers(last.module_name)) =>
          SkippedWithError({"unknown handler"})
    /\ \A p \in DOMAIN files :
          p[1] = export_dir_utility => "sparv_handler" \notin DOMAIN files[p]

\* C6 witness: a utility document of the plugin was written
C6_Witness ==
    /\ Written
    /\ last.write.path[1] = export_dir_utility
    /\ last.module_name = "p1"
    /\ "sparv_handler" \in DOMAIN last.merged

DirOfType(type) ==
    IF type = "analysis" THEN export_dir_analysis ELSE export_dir_utility

\* C7: a written document goes to the one file <id>.yaml in the directory of
\* the type stored in it, "analysis" or "utility"; no other file changes and
\* no document with another type is written.
C7_OneFileInTheDirectoryOfTheType ==
    /\ [](\A p \in DOMAIN files :
             /\ Get(files[p], "type") \in {"analysis", "utility"}
             /\ p[1] = DirOfType(files[p]["type"]))
    /\ [](Written =>
             /\ last.write.path = <<DirOfType(last.write.data["type"]), last.analysis_id \o ".yaml">>
             /\ files[last.write.path] = last.write.data)
    /\ [][docs_read' # docs_read =>
             IF last'.outcome = "written"
             THEN /\ DOMAIN files' = DOMAIN files \cup {last'.write.path}
                  /\ \A p \in DOMAIN files \ {last'.write.path} : files'[p] = files[p]
                  /\ written_counter' = written_counter + 1
             ELSE files' = files /\ written_counter' = written_counter]_vars

\* C7 witness: the export holds an analysis file and a utility file
C7_Witness ==
    /\ Written
    /\ \E p, q \in DOMAIN files : p[1] = export_dir_analysis /\ q[1] = export_dir_utility

OwnContact == Get(last.merged, "contact_info")

OwnLicense == Get(last.merged, "license")

\* C9: a written document keeps a declared non-empty license; without one it
\* gets "MIT" if its module is not a plugin and no license field if it is.
C9_DefaultLicense ==
    Written =>
        IF Truthy(OwnLicense)
        THEN Get(last.write.data, "license") = OwnLicense
        ELSE IF last.module_name \notin PluginModules
        THEN Get(last.write.data, "license") = "MIT"
        ELSE "license" \notin DOMAIN last.write.data

\* C9 witness: a document of the plugin was written without a license while a
\* document of the regular module got the default
C9_Witness ==
    /\ Written
    /\ last.module_name \in PluginModules
    /\ "license" \notin DOMAIN last.write.data
    /\ \E p \in DOMAIN files : Get(files[p], "license") = "MIT"

\* the keys the loop body takes out of the document before it is written
ConsumedKeys ==
    {"id", "abstract", "annotations", "example_output", "example_extra"}
    \cup (IF last.write.path[1] = export_dir_utility THEN {"sparv_handler"}
          ELSE IF last.module_name \in PluginModules THEN {"plugin_url"} ELSE {})

\* C10: no written document has a top-level field with an empty or false
\* value, and every other field of the document that the loop body does not
\* consume is written, with its value unless it is the type or the example.
C10_NoEmptyFields ==
    /\ \A p \in DOMAIN files : \A k \in DOMAIN files[p] : Truthy(files[p][k])
    /\ Written =>
          \A k \in DOMAIN last.merged \ ConsumedKeys :
              /\ Truthy(last.merged[k]) => k \in DOMAIN last.write.data
              /\ (Truthy(last.merged[k]) /\ k \notin {"type", "example"}) =>
                    last.write.data[k] = last.merged[k]
              /\ (~Truthy(last.merged[k]) /\ k \notin {"license", "contact_info", "example", "analysis_unit"}) =>
                    k \notin DOMAIN last.write.data

\* C10 witness: a document with an empty field and a non-empty field was
\* written without the first and with the second
C10_Witness ==
    /\ Written
    /\ \E k \in DOMAIN last.merged \ ConsumedKeys :
          ~Truthy(last.merged[k]) /\ k \notin DOMAIN last.write.data
    /\ \E k \in DOMAIN last.merged \ (ConsumedKeys \cup {"type", "example"}) :
          Truthy(last.merged[k]) /\ last.write.data[k] = last.merged[k]

(***************************************************************************)
(* Field derivation library: metadata_utils.py                             *)
(*                                                                         *)
(* A download or interface item is a dict.  Where the code has None in the *)
(* place of an item the model has NullItem, and where it has None in the   *)
(* place of a list it has NoneList, so that lists and items stay           *)
(* comparable; True and False are written "true" and "false".              *)
(***************************************************************************)
KORP_URL == "https://spraakbanken.gu.se/korp"

MENINGSMANGDER_URL == "https://spraakbanken.gu.se/resurser/meningsmangder"

STATS_URL == "https://svn.spraakbanken.gu.se/sb-arkiv/pub/frekvens"

STANDARD_LICENSE == "CC-BY-4.0"

NullItem == [null |-> None]

NoneList == <<None>>

\* str(v) inside an f-string
PyStr(v) == IF v = None THEN "None" ELSE v

\* mutant of make_standard_xml_export: the test is 'not scrambled'
make_standard_xml_export_not_scrambled(corpus_id, scrambled, scramble_on) ==
    IF ~Truthy(scrambled) THEN NullItem
    ELSE [url |-> MENINGSMANGDER_URL \o "/" \o corpus_id \o ".xml.bz2", type |-> "corpus",
          format |-> "XML", scrambled |-> scrambled, description |-> "",
          license |-> STANDARD_LICENSE]

\* lines 25-48
make_standard_xml_export(corpus_id, scrambled, scramble_on) ==
    IF scrambled = None THEN NullItem
    ELSE LET item == [url |-> MENINGSMANGDER_URL \o "/" \o corpus_id \o ".xml.bz2",
                      type |-> "corpus", format |-> "XML", scrambled |-> scrambled,
                      description |-> "", license |-> STANDARD_LICENSE]
         IN  IF Truthy(scramble_on) THEN Put(item, "scramble_level", scramble_on) ELSE item

\* line 62: installations and any(i.startswith("stats_export:") ...), as a
\* truth value
stats_installation(installations) ==
    /\ installations # NoneList
    /\ \E i \in DOMAIN installations : StartsWith(installations[i], "stats_export:")

STATS_ENABLED_WITHOUT_INSTALLATION == "stats_export is enabled but no stats export installation is selected"

STATS_INSTALLATION_WITHOUT_ENABLED == "a stats export installation is selected but stats_export is disabled"

\* lines 73-81
stats_item(corpus_id) ==
    [url |-> STATS_URL \o "/stats_" \o corpus_id \o ".csv.zip", type |-> "token frequencies",
     format |-> "CSV", description |-> "", license |-> STANDARD_LICENSE]

\* mutant of make_standard_stats_export: only the flag decides the item
make_standard_stats_export_flag_only(corpus_id, stats_export, installations) ==
    [warnings |->
        IF Truthy(stats_export) /\ ~stats_installation(installations)
        THEN <<STATS_ENABLED_WITHOUT_INSTALLATION>>
        ELSE IF stats_export = "false" /\ stats_installation(installations)
        THEN <<STATS_INSTALLATION_WITHOUT_ENABLED>>
        ELSE <<>>,
     returns |-> IF Truthy(stats_export) THEN stats_item(corpus_id) ELSE NullItem]

\* mutant of make_standard_stats_export: the second test is 'not stats_export'
make_standard_stats_export_not_flag(corpus_id, stats_export, installations) ==
    [warnings |->
        IF Truthy(stats_export) /\ ~stats_installation(installations)
        THEN <<STATS_ENABLED_WITHOUT_INSTALLATION>>
        ELSE IF ~Truthy(stats_export) /\ stats_installation(installations)
        THEN <<STATS_INSTALLATION_WITHOUT_ENABLED>>
        ELSE <<>>,
     returns |-> IF Truthy(stats_export) \/ stats_installation(installations)
                 THEN stats_item(corpus_id) ELSE NullItem]

\* lines 51-81: the logger.warning calls it makes and the value it returns
make_standard_stats_export(corpus_id, stats_export, installations) ==
    [warnings |->
        IF Truthy(stats_export) /\ ~stats_installation(installations)
        THEN <<STATS_ENABLED_WITHOUT_INSTALLATION>>
        ELSE IF stats_export = "false" /\ stats_installation(installations)
        THEN <<STATS_INSTALLATION_WITHOUT_ENABLED>>
        ELSE <<>>,
     returns |-> IF Truthy(stats_export) \/ stats_installation(installations)
                 THEN stats_item(corpus_id) ELSE NullItem]

\* lines 100-104
korp_item(scrambled, scramble_on) ==
    LET item == [license |-> STANDARD_LICENSE]
        with_scrambled == IF scrambled # None THEN Put(item, "scrambled", scrambled) ELSE item
    IN  IF Truthy(scramble_on) THEN Put(with_scrambled, "scramble_level", scramble_on)
        ELSE with_scrambled

\* mutant of make_korp: only the first mode is tested for the name "default"
make_korp_first_mode_only(korp, corpus_id, korp_modes, scrambled, scramble_on) ==
    IF ~Truthy(korp) THEN [raised |-> None, returns |-> NullItem]
    ELSE IF korp_modes = <<>> THEN [raised |-> "IndexError", returns |-> NullItem]
    ELSE IF Get(korp_modes[1], "name") = "default"
    THEN [raised |-> None,
          returns |-> Put(korp_item(scrambled, scramble_on), "url",
                          KORP_URL \o "/#?corpus=" \o corpus_id)]
    ELSE [raised |-> None,
          returns |-> Put(korp_item(scrambled, scramble_on), "url",
                          KORP_URL \o "/?mode=" \o PyStr(Get(korp_modes[1], "name"))
                                   \o "#?corpus=" \o corpus_id)]

\* lines 84-113: the value it returns, or the exception korp_modes[0] raises
make_korp(korp, corpus_id, korp_modes, scrambled, scramble_on) ==
    IF ~Truthy(korp) THEN [raised |-> None, returns |-> NullItem]
    ELSE IF \E i \in DOMAIN korp_modes : Get(korp_modes[i], "name") = "default"
    THEN [raised |-> None,
          returns |-> Put(korp_item(scrambled, scramble_on), "url",
                          KORP_URL \o "/#?corpus=" \o corpus_id)]
    ELSE IF korp_modes = <<>> THEN [raised |-> "IndexError", returns |-> NullItem]
    ELSE [raised |-> None,
          returns |-> Put(korp_item(scrambled, scramble_on), "url",
                          KORP_URL \o "/?mode=" \o PyStr(Get(korp_modes[1], "name"))
                                   \o "#?corpus=" \o corpus_id)]

(***************************************************************************)
(* The library functions applied to the arguments a caller can pass        *)
(***************************************************************************)
CorpusIds == {"c1", "demo"}

\* a bool | None argument
TriState == {None, "true", "false"}

\* scramble_on: str | None
ScrambleLevels == {None, "", "sentence"}

\* installations: list | None
InstallationLists ==
    {NoneList, <<>>, <<"korp:install_corpus">>, <<"stats_export:install_freq_list">>,
     <<"korp:install_corpus", "stats_export:install_freq_list">>,
     <<"stats_export_old:install", "xml_export:install">>}

\* korp_modes: list[dict]
ModeLists ==
    {<<>>, <<[name |-> "default"]>>, <<[name |-> "lb"]>>, <<EmptyDict>>,
     <<[name |-> "lb"], [name |-> "default"]>>, <<[name |-> "lb"], [name |-> "bible"]>>,
     <<[name |-> "bible"], [name |-> "lb"], [name |-> "default"]>>}

\* create_export_files is not running
AggregatorIdle ==
    /\ doc_pool = 1
    /\ module_idx = 1
    /\ parents = NoParents
    /\ all_ids = {}
    /\ files = NoFiles
    /\ written_counter = 0
    /\ log = <<>>
    /\ pc = "done"
    /\ docs_read = 0
    /\ last = NoLast

InitLibrary ==
    /\ call = NoCall
    /\ NoCorpus
    /\ md_contact = SBX_DEFAULT_SENTINEL
    /\ AggregatorIdle

Call_make_standard_xml_export ==
    /\ \E corpus_id \in CorpusIds, scrambled \in TriState, scramble_on \in ScrambleLevels :
          call' = [fn |-> "make_standard_xml_export",
                   args |-> [corpus_id |-> corpus_id, scrambled |-> scrambled,
                             scramble_on |-> scramble_on],
                   raised |-> None, warnings |-> <<>>,
                   returns |-> make_standard_xml_export(corpus_id, scrambled, scramble_on)]
    /\ UNCHANGED <<aggregator_vars, corpus_vars>>

Call_make_standard_stats_export ==
    /\ \E corpus_id \in CorpusIds, stats_export \in TriState, installations \in InstallationLists :
          \E r \in {make_standard_stats_export(corpus_id, stats_export, installations)} :
              call' = [fn |-> "make_standard_stats_export",
                       args |-> [corpus_id |-> corpus_id, stats_export |-> stats_export,
                                 installations |-> installations],
                       raised |-> None, warnings |-> r.warnings, returns |-> r.returns]
    /\ UNCHANGED <<aggregator_vars, corpus_vars>>

Call_make_korp ==
    /\ \E korp \in TriState, corpus_id \in CorpusIds, korp_modes \in ModeLists,
          scrambled \in TriState, scramble_on \in ScrambleLevels :
          \E r \in {make_korp(korp, corpus_id, korp_modes, scrambled, scramble_on)} :
              call' = [fn |-> "make_korp",
                       args |-> [korp |-> korp, corpus_id |-> corpus_id,
                                 korp_modes |-> korp_modes, scrambled |-> scrambled,
                                 scramble_on |-> scramble_on],
                       raised |-> r.raised, warnings |-> <<>>, returns |-> r.returns]
    /\ UNCHANGED <<aggregator_vars, corpus_vars>>

NextLibrary ==
    Call_make_standard_xml_export \/ Call_make_standard_stats_export \/ Call_make_korp

SpecLibrary == InitLibrary /\ [][NextLibrary]_vars

\* s has sub as a substring
Contains(s, sub) ==
    \E i \in 1..(Len(s) - Len(sub) + 1) : SubSeq(s, i, i + Len(sub) - 1) = sub

EndsWith(s, suffix) ==
    Len(s) >= Len(suffix) /\ SubSeq(s, Len(s) - Len(suffix) + 1, Len(s)) = suffix

Called(fn) == call.fn = fn

\* C11: make_standard_xml_export returns null if and only if scrambled is
\* null; for scrambled true or false the item's scrambled field is the
\* argument and its URL holds the corpus id.
C11_XmlExportItemIffScrambledSet ==
    Called("make_standard_xml_export") =>
        /\ call.returns = NullItem <=> call.args.scrambled = None
        /\ call.args.scrambled \in {"true", "false"} =>
              /\ call.returns # NullItem
              /\ call.returns["scrambled"] = call.args.scrambled
              /\ Contains(call.returns["url"], "/" \o call.args.corpus_id \o ".")

\* C11 witness: called with scrambled false, an item marked as not scrambled
\* was returned
C11_Witness ==
    /\ Called("make_standard_xml_export")
    /\ call.args.scrambled = "false"
    /\ call.returns # NullItem
    /\ call.returns["scrambled"] = "false"

\* some selected installation has a name that starts with "stats_export:"
MatchingInstallation ==
    /\ call.args.installations # NoneList
    /\ \E i \in DOMAIN call.args.installations :
          /\ Len(call.args.installations[i]) >= 13
          /\ SubSeq(call.args.installations[i], 1, 13) = "stats_export:"

\* C12: make_standard_stats_export returns an item if and only if the flag is
\* true or a selected installation starts with "stats_export:"; otherwise,
\* also with a null or empty installation list, it returns null.
C12_StatsItemIffSomeSignal ==
    Called("make_standard_stats_export") =>
        /\ call.returns # NullItem <=> (call.args.stats_export = "true" \/ MatchingInstallation)
        /\ (call.args.stats_export \in {"false", None}
              /\ call.args.installations \in {NoneList, <<>>}) => call.returns = NullItem

\* C12 witness: the flag is false and a matching installation alone gave the
\* item
C12_Witness ==
    /\ Called("make_standard_stats_export")
    /\ call.args.stats_export = "false"
    /\ MatchingInstallation
    /\ call.returns # NullItem

\* C13 as stated: a warning is emitted exactly when the signals disagree, the
\* flag not being enabled meaning false or null.
C13_WarningWheneverSignalsDisagree ==
    Called("make_standard_stats_export") =>
        (call.warnings # <<>> <=>
            \/ call.args.stats_export = "true" /\ ~MatchingInstallation
            \/ call.args.stats_export \in {"false", None} /\ MatchingInstallation)

\* C13 amended: one warning is emitted exactly when the flag is true and no
\* matching installation is selected, or the flag is false and a matching
\* installation is selected; a null flag gives no warning; the item is
\* returned or not as without the warning.
C13_WarningWhenFlagSetAndSignalsDisagree ==
    Called("make_standard_stats_export") =>
        /\ call.warnings # <<>> <=>
              \/ call.args.stats_export = "true" /\ ~MatchingInstallation
              \/ call.args.stats_export = "false" /\ MatchingInstallation
        /\ Len(call.warnings) <= 1
        /\ call.args.stats_export = None => call.warnings = <<>>
        /\ call.warnings # <<>> => call.returns # NullItem
        /\ call.returns # NullItem <=> (call.args.stats_export = "true" \/ MatchingInstallation)

\* C13 witness: the flag is true, no matching installation is selected: a
\* warning and the item
C13_Witness ==
    /\ Called("make_standard_stats_export")
    /\ call.args.stats_export = "true"
    /\ ~MatchingInstallation
    /\ Len(call.warnings) = 1
    /\ call.returns # NullItem

HasDefaultMode ==
    \E i \in DOMAIN call.args.korp_modes :
        "name" \in DOMAIN call.args.korp_modes[i] /\ call.args.korp_modes[i]["name"] = "default"

\* C14: with Korp enabled, the item's URL is the mode-less form ending in
\* #?corpus=<id> if a mode at any position is named "default", and names the
\* first listed mode otherwise; with Korp disabled the result is null.
C14_KorpUrlPrefersDefaultMode ==
    Called("make_korp") =>
        IF call.args.korp # "true"
        THEN call.raised = None /\ call.returns = NullItem
        ELSE IF HasDefaultMode
        THEN /\ call.raised = None
             /\ call.returns["url"] = KORP_URL \o "/#?corpus=" \o call.args.corpus_id
             /\ ~Contains(call.returns["url"], "mode=")
        ELSE IF call.args.korp_modes # <<>>
        THEN /\ call.raised = None
             /\ EndsWith(call.returns["url"], "#?corpus=" \o call.args.corpus_id)
             /\ Contains(call.returns["url"],
                         "/?mode=" \o PyStr(Get(call.args.korp_modes[1], "name")) \o "#")
        ELSE call.raised = "IndexError"

\* C14 witness: the mode named "default" is listed last and the URL is the
\* mode-less form
C14_Witness ==
    /\ Called("make_korp")
    /\ call.args.korp = "true"
    /\ Len(call.args.korp_modes) > 1
    /\ Get(call.args.korp_modes[1], "name") # "default"
    /\ HasDefaultMode
    /\ call.raised = None
    /\ call.returns["url"] = KORP_URL \o "/#?corpus=" \o call.args.corpus_id

(***************************************************************************)
(* Corpus exporters and installers: __init__.py, yaml_export.py,           *)
(* json_export.py, metashare.py                                            *)
(*                                                                         *)
(* The host loads the corpus configuration, checks it against the          *)
(* declarations of __config__ and then runs the exporters and installers   *)
(* the user asks for, each with the configuration values and counters its  *)
(* signature names.  A description is written as the text of its mapping.  *)
(***************************************************************************)
\* mutant of xml_export_choices: the declaration has no choices
xml_export_choices_any == {"scrambled", "original", "false", "bogus", ""}

\* __init__.py line 35
xml_export_choices == {"scrambled", "original", "false"}

\* the values a corpus configuration file can give sbx_metadata.xml_export
XmlExportValues == {"scrambled", "original", "false", "bogus", ""}

\* the texts the counters misc.<token>_count and misc.<sentence>_count hold
Counters == {"10", "007", "ten", ""}

HostValues == {None, "", "fksparv@bark.spraakdata.gu.se"}

Metadatas ==
    {[name |-> "{eng: Corpus}"],
     [name |-> "{eng: Corpus}", description |-> "{eng: A long text}"],
     [name |-> "{eng: Corpus}", short_description |-> "{eng: Short}",
      description |-> "{eng: A long text}"],
     [name |-> "{eng: Corpus}", short_description |-> "{}",
      description |-> "{eng: A long text}"],
     [name |-> "{eng: Corpus}", short_description |-> "{eng: Short}"]}

USER_DOWNLOAD == [url |-> "https://example.org/c1.zip", license |-> "CC-BY-4.0"]

USER_INTERFACE == [url |-> "https://example.org/search", license |-> "CC-BY-4.0"]

DownloadLists == {<<>>, <<USER_DOWNLOAD>>, <<NullItem, USER_DOWNLOAD, EmptyDict>>}

InterfaceLists == {<<>>, <<USER_INTERFACE>>, <<NullItem, USER_INTERFACE>>}

\* the defaults of __config__ and of the host for a corpus c1
BaseConfig ==
    [corpus_id |-> "c1",
     metadata |-> [name |-> "{eng: Corpus}", description |-> "{eng: A long text}"],
     tokens |-> "10", sentences |-> "2",
     korp_modes |-> <<[name |-> "default"]>>,
     xml_export |-> "scrambled", stats_export |-> "true", korp |-> "true",
     md_downloads |-> <<>>, md_interface |-> <<>>,
     yaml_export_host |-> "fksparv@bark.spraakdata.gu.se",
     yaml_export_path |-> "/home/fksparv/metadata/yaml/corpus",
     json_export_host |-> None, json_export_path |-> "/home/fksparv/metadata/json",
     metashare_host |-> None, metashare_path |-> "/home/fksparv/metadata/metashare"]

\* the corpus configurations of the model: the defaults with some keys set
CorpusConfigs ==
    {[BaseConfig EXCEPT !.xml_export = x, !.tokens = t, !.sentences = n] :
        x \in XmlExportValues, t \in Counters, n \in {"2", "two"}}
    \cup {[BaseConfig EXCEPT !.metadata = m, !.md_downloads = d, !.stats_export = e] :
            m \in Metadatas, d \in DownloadLists, e \in {"true", "false"}}
    \cup {[BaseConfig EXCEPT !.korp = k, !.korp_modes = km, !.md_interface = i] :
            k \in {"true", "false"}, km \in {<<[name |-> "default"]>>, <<[name |-> "lb"]>>},
            i \in InterfaceLists}
    \cup {[BaseConfig EXCEPT !.yaml_export_host = y, !.json_export_host = j,
                             !.metashare_host = m] :
            y \in HostValues, j \in HostValues, m \in HostValues}

Digits == {"0", "1", "2", "3", "4", "5", "6", "7", "8", "9"}

DigitValue(c) == CHOOSE v \in 0..9 : SubSeq("0123456789", v + 1, v + 1) = c

\* int(s) raises ValueError unless s, stripped, is an optional sign and digits
IntRaisesValueError(s) ==
    LET t == Strip(s)
        body == IF Len(t) > 0 /\ CharAt(t, 1) \in {"+", "-"} THEN SubSeq(t, 2, Len(t)) ELSE t
    IN  Len(body) = 0 \/ \E i \in 1..Len(body) : CharAt(body, i) \notin Digits

RECURSIVE DigitsToInt(_)
DigitsToInt(body) ==
    IF Len(body) = 0 THEN 0
    ELSE 10 * DigitsToInt(SubSeq(body, 1, Len(body) - 1)) + DigitValue(CharAt(body, Len(body)))

\* int(s) for a text int() accepts
int(s) ==
    LET t == Strip(s)
    IN  IF CharAt(t, 1) = "-" THEN 0 - DigitsToInt(SubSeq(t, 2, Len(t)))
        ELSE IF CharAt(t, 1) = "+" THEN DigitsToInt(SubSeq(t, 2, Len(t)))
        ELSE DigitsToInt(t)

\* metadata.get("name", {})
GetOrEmpty(d, k) == IF k \in DOMAIN d THEN d[k] ELSE "{}"

\* yaml_export.py lines 57-67 and json_export.py lines 47-57: md_obj with the
\* name and the short description, and the flag set_long_description
set_short_description(metadata) ==
    LET md_obj == [name |-> GetOrEmpty(metadata, "name")]
    IN  IF Truthy(Get(metadata, "short_description"))
        THEN [set_long_description |-> TRUE,
              md_obj |-> Put(md_obj, "short_description", metadata["short_description"])]
        ELSE IF Truthy(Get(metadata, "description"))
        THEN [set_long_description |-> FALSE,
              md_obj |-> Put(md_obj, "short_description", metadata["description"])]
        ELSE [set_long_description |-> TRUE, md_obj |-> md_obj]

\* yaml_export.py lines 34-139: the exception the run ends with (None if it
\* returns) and md_obj as far as it was built.  Line 69 reads
\* md_obj["short_description"]; lines 94-95 parse the counters; line 102
\* passes two arguments to make_standard_xml_export, which has three
\* parameters without default (metadata_utils.py line 25), so that the call
\* raises TypeError whatever the arguments are and lines 103-139 never run.
yaml_export(corpus_id, metadata, sentences, tokens, korp_modes, md_xml_export, md_stats_export, md_korp, md_downloads, md_interface) ==
    LET md_obj == set_short_description(metadata).md_obj
    IN  IF "short_description" \notin DOMAIN md_obj
        THEN [raised |-> "KeyError", md_obj |-> md_obj]
        ELSE IF IntRaisesValueError(tokens) \/ IntRaisesValueError(sentences)
        THEN [raised |-> "ValueError", md_obj |-> Put(md_obj, "type", "corpus")]
        ELSE [raised |-> "TypeError",
              md_obj |-> Put(Put(md_obj, "type", "corpus"), "size",
                             [tokens |-> int(tokens), sentences |-> int(sentences)])]

\* json_export.py lines 30-101, likewise: lines 66-69 store the counters as
\* they are read, line 75 makes the call of two arguments
json_export(corpus_id, metadata, sentences, tokens, korp_modes, md_xml_export, md_stats_export, md_korp, md_downloads, md_interface) ==
    LET md_obj == set_short_description(metadata).md_obj
    IN  [raised |-> "TypeError",
         md_obj |-> Put(Put(md_obj, "type", "corpus"), "size",
                        [tokens |-> tokens, sentences |-> sentences])]

\* Export("sbx_metadata/[metadata.id].<ext>")
ExportFile(corpus_id, ext) == "sbx_metadata/" \o corpus_id \o "." \o ext

\* Path(p).name
RECURSIVE PathName(_)
PathName(p) ==
    IF \E i \in 1..Len(p) : CharAt(p, i) = "/"
    THEN PathName(SubSeq(p, 1 + Min({i \in 1..Len(p) : CharAt(p, i) = "/"}), Len(p)))
    ELSE p

\* os.path.join(export_path, filename)
PathJoin(export_path, filename) ==
    IF EndsWith(export_path, "/") THEN export_path \o filename
    ELSE export_path \o "/" \o filename

\* util.install.install_path and install_file copy the local file to the host
CopyToRemote(file, host, remote_file_path) ==
    [p \in DOMAIN remote_files \cup {<<host, remote_file_path>>} |->
        IF p = <<host, remote_file_path>> THEN local_files[file] ELSE remote_files[p]]

\* util.install.uninstall_path removes the file from the host
RemoveFromRemote(remote_file_path, host) ==
    [p \in DOMAIN remote_files \ {<<host, remote_file_path>>} |-> remote_files[p]]

NothingInstalled(message) ==
    [raised |-> "SparvErrorMessage", message |-> message,
     remote_files |-> remote_files, markers |-> markers]

\* mutant of install_yaml: the host is not tested
install_yaml_any_host(yamlfile, marker, uninstall_marker, export_path, host) ==
    [raised |-> None, message |-> "",
     remote_files |-> CopyToRemote(yamlfile, host, PathJoin(export_path, PathName(yamlfile))),
     markers |-> (markers \ {uninstall_marker}) \cup {marker}]

\* mutant of install_yaml: the uninstall marker is left where it is
install_yaml_keeps_uninstall_marker(yamlfile, marker, uninstall_marker, export_path, host) ==
    IF ~Truthy(host)
    THEN NothingInstalled("'sbx_metadata.yaml_export_host' not set! YAML export not installed.")
    ELSE [raised |-> None, message |-> "",
          remote_files |-> CopyToRemote(yamlfile, host, PathJoin(export_path, PathName(yamlfile))),
          markers |-> markers \cup {marker}]

\* yaml_export.py lines 163-178
install_yaml(yamlfile, marker, uninstall_marker, export_path, host) ==
    IF ~Truthy(host)
    THEN NothingInstalled("'sbx_metadata.yaml_export_host' not set! YAML export not installed.")
    ELSE [raised |-> None, message |-> "",
          remote_files |-> CopyToRemote(yamlfile, host, PathJoin(export_path, PathName(yamlfile))),
          markers |-> (markers \ {uninstall_marker}) \cup {marker}]

\* yaml_export.py lines 181-195
uninstall_yaml(corpus_id, marker, install_marker, export_path, host) ==
    IF ~Truthy(host)
    THEN NothingInstalled("'sbx_metadata.yaml_export_host' not set! YAML export not uninstalled.")
    ELSE [raised |-> None, message |-> "",
          remote_files |-> RemoveFromRemote(PathJoin(export_path, corpus_id \o ".yaml"), host),
          markers |-> (markers \ {install_marker}) \cup {marker}]

\* json_export.py lines 104-119
install_json(jsonfile, marker, uninstall_marker, export_path, host) ==
    IF ~Truthy(host)
    THEN NothingInstalled("'sbx_metadata.json_export_host' not set! JSON export not installed.")
    ELSE [raised |-> None, message |-> "",
          remote_files |-> CopyToRemote(jsonfile, host, PathJoin(export_path, PathName(jsonfile))),
          markers |-> (markers \ {uninstall_marker}) \cup {marker}]

\* json_export.py lines 122-136
uninstall_json(corpus_id, marker, install_marker, export_path, host) ==
    IF ~Truthy(host)
    THEN NothingInstalled("'sbx_metadata.json_export_host' not set! JSON export not uninstalled.")
    ELSE [raised |-> None, message |-> "",
          remote_files |-> RemoveFromRemote(PathJoin(export_path, corpus_id \o ".json"), host),
          markers |-> (markers \ {install_marker}) \cup {marker}]

\* metashare.py lines 120-131
install_metashare(xmlfile, out, export_path, host) ==
    IF ~Truthy(host)
    THEN NothingInstalled("'sbx_metadata.metashare_host' not set! META-SHARE export not installed.")
    ELSE [raised |-> None, message |-> "",
          remote_files |-> CopyToRemote(xmlfile, host, PathJoin(export_path, PathName(xmlfile))),
          markers |-> markers \cup {out}]

\* export files an earlier run of the exporters left in the export directory
EarlierExports ==
    [f \in {ExportFile("c1", "yaml"), ExportFile("c1", "json"), ExportFile("c1", "xml")} |->
        [generated |-> "by an earlier run"]]

InitCorpus ==
    /\ call = NoCall
    /\ config = NoConfig
    /\ local_files \in {NoFiles, EarlierExports}
    /\ remote_files = NoFiles
    /\ markers = {}
    /\ result = NoResult
    /\ md_contact = SBX_DEFAULT_SENTINEL
    /\ AggregatorIdle

\* __init__.py lines 30-36: the host checks the value of
\* sbx_metadata.xml_export against the declared choices when it loads the
\* corpus configuration, and refuses the configuration with an error that
\* names the value and the choices
LoadConfig ==
    /\ config = NoConfig
    /\ \E c \in CorpusConfigs :
          IF c.xml_export \notin xml_export_choices
          THEN /\ config' = NoConfig
               /\ result' = [op |-> "load_config", raised |-> "SparvErrorMessage",
                             detail |-> [key |-> "sbx_metadata.xml_export",
                                         value |-> c.xml_export,
                                         choices |-> xml_export_choices]]
          ELSE /\ config' = c
               /\ result' = [op |-> "load_config", raised |-> None,
                             detail |-> [key |-> "sbx_metadata.xml_export",
                                         value |-> c.xml_export,
                                         choices |-> xml_export_choices]]
    /\ UNCHANGED <<aggregator_vars, call, local_files, remote_files, markers>>

\* with open(out, "w") ... dump(md_obj): reached only if nothing was raised
WriteExport(out, r) ==
    IF r.raised = None
    THEN [f \in DOMAIN local_files \cup {out} |-> IF f = out THEN r.md_obj ELSE local_files[f]]
    ELSE local_files

Export_yaml ==
    /\ config # NoConfig
    /\ \E r \in {yaml_export(config.corpus_id, config.metadata, config.sentences,
                             config.tokens, config.korp_modes, config.xml_export,
                             config.stats_export, config.korp, config.md_downloads,
                             config.md_interface)} :
          /\ local_files' = WriteExport(ExportFile(config.corpus_id, "yaml"), r)
          /\ result' = [op |-> "yaml_export", raised |-> r.raised, detail |-> EmptyDict]
    /\ UNCHANGED <<aggregator_vars, call, config, remote_files, markers>>

Export_json ==
    /\ config # NoConfig
    /\ \E r \in {json_export(config.corpus_id, config.metadata, config.sentences,
                             config.tokens, config.korp_modes, config.xml_export,
                             config.stats_export, config.korp, config.md_downloads,
                             config.md_interface)} :
          /\ local_files' = WriteExport(ExportFile(config.corpus_id, "json"), r)
          /\ result' = [op |-> "json_export", raised |-> r.raised, detail |-> EmptyDict]
    /\ UNCHANGED <<aggregator_vars, call, config, remote_files, markers>>

\* util.install.install_path, uninstall_path and install_file run a remote
\* command, which can fail: the exception leaves the installer at that line
\* (yaml_export.py lines 176 and 193, json_export.py lines 117 and 134,
\* metashare.py line 130), after the test of the host and before the markers
\* are touched
Transfer(transferred, r) ==
    IF r.raised = None /\ ~transferred
    THEN [raised |-> "TransferError", message |-> "",
          remote_files |-> remote_files, markers |-> markers]
    ELSE r

\* an installer or uninstaller ran and ended as r
Installed(op, r) ==
    /\ remote_files' = r.remote_files
    /\ markers' = r.markers
    /\ result' = [op |-> op, raised |-> r.raised, detail |-> [message |-> r.message]]
    /\ UNCHANGED <<aggregator_vars, call, config, local_files>>

Install_yaml ==
    /\ config # NoConfig
    /\ ExportFile(config.corpus_id, "yaml") \in DOMAIN local_files
    /\ \E transferred \in BOOLEAN :
          Installed("install_yaml", Transfer(transferred,
                       install_yaml(ExportFile(config.corpus_id, "yaml"),
                                    "sbx_metadata.install_yaml_export_marker",
                                    "sbx_metadata.uninstall_yaml_export_marker",
                                    config.yaml_export_path, config.yaml_export_host)))

Uninstall_yaml ==
    /\ config # NoConfig
    /\ \E transferred \in BOOLEAN :
          Installed("uninstall_yaml", Transfer(transferred,
                       uninstall_yaml(config.corpus_id,
                                      "sbx_metadata.uninstall_yaml_export_marker",
                                      "sbx_metadata.install_yaml_export_marker",
                                      config.yaml_export_path, config.yaml_export_host)))

Install_json ==
    /\ config # NoConfig
    /\ ExportFile(config.corpus_id, "json") \in DOMAIN local_files
    /\ \E transferred \in BOOLEAN :
          Installed("install_json", Transfer(transferred,
                       install_json(ExportFile(config.corpus_id, "json"),
                                    "sbx_metadata.install_json_export_marker",
                                    "sbx_metadata.uninstall_json_export_marker",
                                    config.json_export_path, config.json_export_host)))

Uninstall_json ==
    /\ config # NoConfig
    /\ \E transferred \in BOOLEAN :
          Installed("uninstall_json", Transfer(transferred,
                       uninstall_json(config.corpus_id,
                                      "sbx_metadata.uninstall_json_export_marker",
                                      "sbx_metadata.install_json_export_marker",
                                      config.json_export_path, config.json_export_host)))

Install_metashare ==
    /\ config # NoConfig
    /\ ExportFile(config.corpus_id, "xml") \in DOMAIN local_files
    /\ \E transferred \in BOOLEAN :
          Installed("install_metashare", Transfer(transferred,
                       install_metashare(ExportFile(config.corpus_id, "xml"),
                                         "sbx_metadata.install_metashare_marker",
                                         config.metashare_path, config.metashare_host)))

NextCorpus ==
    \/ LoadConfig
    \/ Export_yaml
    \/ Export_json
    \/ Install_yaml
    \/ Uninstall_yaml
    \/ Install_json
    \/ Uninstall_json
    \/ Install_metashare

SpecCorpus == InitCorpus /\ [][NextCorpus]_vars

LegalXmlExportValues == {"scrambled", "original", "false"}

ExportRan == result.op \in {"yaml_export", "json_export"}

\* the counters are numbers and a description is configured
ExportableConfig ==
    /\ ~IntRaisesValueError(config.tokens)
    /\ ~IntRaisesValueError(config.sentences)
    /\ Truthy(Get(config.metadata, "short_description")) \/ Truthy(Get(config.metadata, "description"))

\* the file the exporter that ran last writes
ExportedRecord ==
    local_files[ExportFile(config.corpus_id, IF result.op = "yaml_export" THEN "yaml" ELSE "json")]

\* [d for d in items if d]
remove_nulls(items) == SelectSeq(items, LAMBDA d : d # NullItem /\ d # EmptyDict)

\* C16: an export of a corpus record gives it the downloads list made of the
\* standard XML export item, the standard stats item, the metashare item and
\* the user-supplied items, in this order and without the null or empty
\* entries.
C16_DownloadsInOrder ==
    (ExportRan /\ ExportableConfig) =>
        /\ result.raised = None
        /\ LET downloads == ExportedRecord["downloads"]
               user == remove_nulls(config.md_downloads)
               n == Len(downloads) - Len(user)
           IN  /\ n \in 0..3
               /\ SubSeq(downloads, n + 1, Len(downloads)) = user
               /\ \A i \in 1..Len(downloads) : downloads[i] \notin {NullItem, EmptyDict}
               /\ \A i, j \in 1..n :
                     (EndsWith(downloads[i]["url"], ".xml.bz2")
                        /\ EndsWith(downloads[j]["url"], ".csv.zip")) => i < j

\* C17: an export of a corpus record gives it the interface list made of the
\* Korp item and the user-supplied items without the nulls; with the Korp
\* flag false there is no Korp item and no null in the list.
C17_InterfaceWithoutNulls ==
    (ExportRan /\ ExportableConfig) =>
        /\ result.raised = None
        /\ LET interface == ExportedRecord["interface"]
               user == remove_nulls(config.md_interface)
           IN  /\ \A i \in 1..Len(interface) : interface[i] \notin {NullItem, EmptyDict}
               /\ IF Truthy(config.korp)
                  THEN /\ Len(interface) = Len(user) + 1
                       /\ Contains(interface[1]["url"], KORP_URL)
                       /\ SubSeq(interface, 2, Len(interface)) = user
                  ELSE interface = user

\* C18: an export of a corpus record uses a non-empty short_description as
\* the short description and keeps description as the long one; without a
\* short_description the description is the short description.
C18_ShortDescriptionFallsBackToDescription ==
    (ExportRan /\ ExportableConfig) =>
        /\ result.raised = None
        /\ IF Truthy(Get(config.metadata, "short_description"))
           THEN /\ ExportedRecord["short_description"] = config.metadata["short_description"]
                /\ Truthy(Get(config.metadata, "description")) =>
                      ExportedRecord["description"] = config.metadata["description"]
           ELSE ExportedRecord["short_description"] = config.metadata["description"]

\* C19: an export of a corpus record stores the two counters as integers in
\* size; with a counter that is not a number the export fails and writes no
\* file.
C19_SizeIsParsedFromTheCounters ==
    ExportRan =>
        IF IntRaisesValueError(config.tokens) \/ IntRaisesValueError(config.sentences)
        THEN /\ result.raised # None
             /\ \A f \in DOMAIN local_files : local_files[f] = EarlierExports[f]
        ELSE ExportableConfig =>
                /\ result.raised = None
                /\ ExportedRecord["size"] =
                      [tokens |-> int(config.tokens), sentences |-> int(config.sentences)]

InstallOps == {"install_yaml", "uninstall_yaml", "install_json", "uninstall_json", "install_metashare"}

\* the remote host configured for the installer or uninstaller that ran last
HostOfLastOp ==
    IF result.op \in {"install_yaml", "uninstall_yaml"} THEN config.yaml_export_host
    ELSE IF result.op \in {"install_json", "uninstall_json"} THEN config.json_export_host
    ELSE config.metashare_host

\* C20: an install or uninstall action whose remote host is unset raises a
\* configuration error and changes nothing: no remote file and no marker is
\* written or removed.
C20_UnsetHostInstallsNothing ==
    /\ [](result.op \in InstallOps =>
             (HostOfLastOp \in {None, ""} <=> result.raised = "SparvErrorMessage"))
    /\ [](result.op \in InstallOps /\ HostOfLastOp \in {None, ""} =>
             Contains(result.detail["message"], "host' not set!"))
    /\ [][(result'.op \in InstallOps /\ result'.raised = "SparvErrorMessage") =>
             UNCHANGED <<remote_files, markers, local_files>>]_vars

\* C20 witness: with a file installed on one host, an action of another
\* format whose host is unset raised the error
C20_Witness ==
    /\ result.op \in InstallOps
    /\ HostOfLastOp \in {None, ""}
    /\ result.raised = "SparvErrorMessage"
    /\ remote_files # NoFiles
    /\ markers # {}

(***************************************************************************)
(* Properties of create_export_files, continued                            *)
(***************************************************************************)
UnitNames == {"token", "sentence", "paragraph", "text"}

\* the classes of the declared outputs of a module that stand for an annotation
ClassesOf(module, annotation) ==
    UNION {{Registry[module][i].outputs[j].cls :
               j \in {x \in DOMAIN Registry[module][i].outputs :
                         StandsFor(Registry[module][i].outputs[x].name, annotation)}} :
             i \in {x \in DOMAIN Registry[module] : Registry[module][x].type = "annotator"}}

\* an annotation stands for a unit by the prefix of its name or by its class
FitsUnit(module, annotation, u) ==
    \/ StartsWith(annotation, "<" \o u \o ">")
    \/ u \in ClassesOf(module, annotation)

\* the positions of the annotations of the last document that stand for a unit
UnitAnnotations ==
    {i \in DOMAIN AnnotationsOfLast :
        \E u \in UnitNames : FitsUnit(last.module_name, AnnotationsOfLast[i], u)}

WrittenAnalysis == Written /\ last.write.path[1] = export_dir_analysis

\* C23: a written analysis document keeps the analysis_unit it declares (an
\* empty one goes with the empty fields); without a declared one its
\* analysis_unit is the unit of the first annotation, in list order, that has
\* one of the four unit prefixes or unit classes; if no annotation has, the
\* document has no analysis_unit.
C23_AnalysisUnitFromFirstUnitAnnotation ==
    WrittenAnalysis =>
        LET unit == Get(last.write.data, "analysis_unit")
        IN  IF "analysis_unit" \in DOMAIN last.merged
            THEN unit = IF Truthy(last.merged["analysis_unit"])
                        THEN last.merged["analysis_unit"] ELSE None
            ELSE IF UnitAnnotations = {} THEN unit = None
            ELSE /\ unit \in UnitNames
                 /\ FitsUnit(last.module_name, AnnotationsOfLast[Min(UnitAnnotations)], unit)

\* C23 witness: a written analysis document without a declared unit whose
\* first annotation stands for no unit and whose later annotations stand for
\* two different units
C23_Witness ==
    /\ WrittenAnalysis
    /\ "analysis_unit" \notin DOMAIN last.merged
    /\ 1 \notin UnitAnnotations
    /\ Cardinality(UnitAnnotations) = 2
    /\ \A u \in UnitNames : \E i \in UnitAnnotations :
          ~FitsUnit(last.module_name, AnnotationsOfLast[i], u)
    /\ last.write.data["analysis_unit"] = "sentence"

\* the log records of the non-abstract documents of one module with one id
RecordsOf(module, id) ==
    {i \in DOMAIN log : log[i].module_name = module /\ log[i].analysis_id = id}

\* C25: in one module the id of a non-abstract document is reserved when it
\* is first seen, whatever becomes of the document: the ids reserved are the
\* ids of all non-abstract documents read so far, the first document with an
\* id is the only one that is classified and possibly written, every later
\* one is rejected as a duplicate, and a file is only ever written by a
\* document whose id was not reserved.
C25_IdReservedBeforeValidation ==
    /\ [](pc = "run" =>
             all_ids = {log[i].analysis_id : i \in {j \in DOMAIN log : log[j].module_name = module_name}})
    /\ [](\A i \in DOMAIN log :
             LET earlier == {j \in RecordsOf(log[i].module_name, log[i].analysis_id) : j < i}
             IN  IF earlier = {}
                 THEN log[i].msg \in ValidationErrors \cup {"written"}
                 ELSE log[i] = LogRecord("error", "duplicate id", log[i].analysis_id,
                                         log[i].module_name))
    /\ [][(docs_read' # docs_read /\ last'.outcome = "written")
            => last'.analysis_id \notin all_ids]_vars

\* C25 witness: a document that names declared annotations only was rejected
\* as a duplicate of a document that failed validation, and the module has
\* written no file for the id
C25_Witness ==
    /\ last.outcome = "duplicate id"
    /\ AllAnnotationsDeclared
    /\ \E i \in RecordsOf(last.module_name, last.analysis_id) :
          /\ log[i].msg \in ValidationErrors
          /\ \A j \in RecordsOf(last.module_name, last.analysis_id) : i <= j
    /\ LogIndices("debug", {"written"}, last.module_name, last.analysis_id) = {}
    /\ \A p \in DOMAIN files : p[2] # last.analysis_id \o ".yaml"

C27_InheritanceThroughChains ==
    /\ (ParentResolved /\ last.outcome = "abstract") =>
          LET stored == parents[last.merged["id"]]
          IN  /\ DOMAIN stored = (DOMAIN ParentRecord \cup DOMAIN last.doc) \ {"parent", "abstract"}
              /\ \A k \in DOMAIN stored :
                    stored[k] = IF k \in DOMAIN last.doc THEN last.doc[k] ELSE ParentRecord[k]
    /\ \A id \in DOMAIN parents : DOMAIN parents[id] \cap {"abstract", "parent"} = {}
    /\ (ParentResolved /\ ~Truthy(Get(last.doc, "abstract"))) =>
          /\ last.outcome # "abstract"
          /\ \A k \in DOMAIN ParentRecord \ DOMAIN last.doc :
                Get(last.merged, k) = ParentRecord[k]

\* C27 witness: c, which inherits from the abstract b, which inherits from
\* the abstract a, is written with the description and annotations of a and
\* the license of b
C27_Witness ==
    /\ Written
    /\ ParentResolved
    /\ DOMAIN last.doc = {"id", "parent"}
    /\ last.doc["parent"] = "b"
    /\ "a" \in DOMAIN parents
    /\ parents["a"]["license"] = "GPL"
    /\ last.write.data["license"] = "BSD"
    /\ last.write.data["description"] = parents["a"]["description"]
    /\ AnnotationsOfLast = parents["a"]["annotations"]

\* C28: the count create_export_files returns is the number of files in the
\* export directories after the run.
C28_CountIsTheNumberOfFiles ==
    pc = "done" => written_counter = Cardinality(DOMAIN files)

(***************************************************************************)
(* Properties of metadata_utils, continued                                 *)
(***************************************************************************)
\* C29: a call of make_korp with Korp enabled does not raise and returns an
\* item with a url and the standard license, whatever the list of modes.
C29_KorpIsTotalWhenEnabled ==
    (Called("make_korp") /\ call.args.korp = "true") =>
        /\ call.raised = None
        /\ "url" \in DOMAIN call.returns
        /\ Get(call.returns, "license") = STANDARD_LICENSE

(***************************************************************************)
(* Properties of the installers, continued                                 *)
(***************************************************************************)
FormatsWithUninstaller == {"yaml", "json"}

InstallMarker(format) == "sbx_metadata.install_" \o format \o "_export_marker"

UninstallMarker(format) == "sbx_metadata.uninstall_" \o format \o "_export_marker"

MarkersOf(format) == {InstallMarker(format), UninstallMarker(format)}

\* C24: for the YAML and the JSON export, the install marker and the
\* uninstall marker are never both there; an install that succeeds leaves the
\* install marker alone, an uninstall that succeeds leaves the uninstall
\* marker alone, and every other step, a failing install or uninstall
\* included, leaves the two markers as they were: the marker that is there is
\* the one of the last action that succeeded.
C24_MarkerOfTheLastSuccess ==
    /\ [](\A f \in FormatsWithUninstaller : ~(MarkersOf(f) \subseteq markers))
    /\ [][\A f \in FormatsWithUninstaller :
            IF result'.op = "install_" \o f /\ result'.raised = None
            THEN markers' \cap MarkersOf(f) = {InstallMarker(f)}
            ELSE IF result'.op = "uninstall_" \o f /\ result'.raised = None
            THEN markers' \cap MarkersOf(f) = {UninstallMarker(f)}
            ELSE markers' \cap MarkersOf(f) = markers \cap MarkersOf(f)]_vars

\* C24 witness: the YAML export was uninstalled and an install that followed
\* failed on a configured host: the uninstall marker is still the only YAML
\* marker, next to the install marker of the JSON export
C24_Witness ==
    /\ result.op = "install_yaml"
    /\ result.raised # None
    /\ Truthy(config.yaml_export_host)
    /\ markers \cap MarkersOf("yaml") = {UninstallMarker("yaml")}
    /\ InstallMarker("json") \in markers

(***************************************************************************)
(* metashare.py: the licenceInfo and annotationInfo blocks of the XML      *)
(* serializer. An element is its tag, its text and its children; the       *)
(* children of an element are a sequence.                                  *)
(***************************************************************************)
Elem(tag, text, sub) == [tag |-> tag, text |-> text, sub |-> sub]

Leaf(tag, text) == Elem(tag, text, <<>>)

\* dict.get(key, default)
GetDefault(item, key, default) == IF key \in DOMAIN item THEN item[key] ELSE default

\* lines 156-172: the licenceInfo element of one item
licenceInfo(item, download) ==
    Elem("licenceInfo", "",
         << Leaf("licence", GetDefault(item, "licence", STANDARD_LICENSE)),
            Leaf("restrictionsOfUse", GetDefault(item, "restriction", "attribution")) >>
         \o (IF download
             THEN << Leaf("distributionAccessMedium", "downloadable"),
                     Leaf("downloadLocation", GetDefault(item, "download", "")) >>
             ELSE << Leaf("distributionAccessMedium", "accessibleThroughInterface"),
                     Leaf("executionLocation", GetDefault(item, "access", "")) >>)
         \o (IF Truthy(Get(item, "info"))
             THEN << Leaf("attributionText", GetDefault(item, "info", "")) >>
             ELSE <<>>))

\* list.insert(i, x) for an index i >= 0, counted from 0
InsertAt(children, i, x) ==
    LET n == IF i < Len(children) THEN i ELSE Len(children)
    IN  SubSeq(children, 1, n) \o <<x>> \o SubSeq(children, n + 1, Len(children))

\* Element.getchildren() (lines 181, 254, 256): the method was removed from
\* xml.etree.ElementTree in Python 3.9, and the package needs Python 3.10 to
\* be imported (the annotations "bool | None" of metadata_utils.py line 25
\* are evaluated when the function is defined): every call raises
getchildren(children) == [raised |-> "AttributeError", returns |-> children]

\* lines 149-182: _set_licence_info(items, distInfo, download); children is
\* distInfo as the call leaves it, also when it raises
RECURSIVE _set_licence_info(_, _, _)
_set_licence_info(items, distInfo, download) ==
    IF items = <<>> THEN [raised |-> None, children |-> distInfo]
    ELSE IF Head(items) = NullItem THEN _set_licence_info(Tail(items), distInfo, download)
    ELSE IF \A i \in DOMAIN distInfo : distInfo[i].tag # "licenceInfo"
    THEN _set_licence_info(Tail(items),
                           InsertAt(distInfo, 1, licenceInfo(Head(items), download)),
                           download)
    ELSE IF getchildren(distInfo).raised # None
    THEN [raised |-> getchildren(distInfo).raised, children |-> distInfo]
    ELSE LET i == CHOOSE x \in DOMAIN distInfo :
                      /\ distInfo[x].tag = "licenceInfo"
                      /\ \A y \in DOMAIN distInfo : distInfo[y].tag = "licenceInfo" => y <= x
         IN  _set_licence_info(Tail(items),
                               InsertAt(distInfo, i, licenceInfo(Head(items), download)),
                               download)

AUTO_TOKEN == <<"segment.token", "stanza.token", "freeling.token", "stanford.token">>

AUTO_SENT == <<"segment.sentence", "stanza.sentence", "freeling.sentence", "stanfort.sentence">>

AUTO_POS ==
    <<"hunpos.pos", "hunpos.msd", "hunpos.msd_hist", "hist.homograph_set", "stanza.pos",
      "stanza.msd", "stanza.upos", "misc.upos", "flair.pos", "flair.msd", "freeling.pos",
      "stanford.pos">>

AUTO_BASEFORM ==
    <<"saldo.baseform", "hist.baseform", "freeling.baseform", "treetagger.baseform",
      "stanford.baseform">>

\* any(x for x in autos if [a for a in annotations if x in a])
any_in(autos, annotations) ==
    \E i \in DOMAIN autos : \E j \in DOMAIN annotations : Contains(annotations[j], autos[i])

\* an annotationInfo element as append_rest (lines 211-217) completes it
annotationInfo(type, levels, auto) ==
    Elem("annotationInfo", "",
         << Leaf("annotationType", type) >>
         \o [i \in DOMAIN levels |-> Leaf("segmentationLevel", levels[i])]
         \o << Leaf("annotationFormat", "text/xml"),
                Leaf("annotationMode", IF auto THEN "automatic" ELSE "manual") >>)

\* lines 251-258: the level is read from parent.getchildren()[-1] before the
\* child is appended
_append_pretty(parent, child) ==
    IF getchildren(parent).raised # None
    THEN [raised |-> getchildren(parent).raised, children |-> parent]
    ELSE [raised |-> None, children |-> Append(parent, child)]

\* the calls of append_rest in their order, up to the first one that raises
RECURSIVE append_rest(_, _)
append_rest(corpusTextInfo, blocks) ==
    IF blocks = <<>> THEN [raised |-> None, children |-> corpusTextInfo]
    ELSE LET r == _append_pretty(corpusTextInfo, Head(blocks))
         IN  IF r.raised # None THEN r ELSE append_rest(r.children, Tail(blocks))

\* lines 207-248: _set_annotation_info(annotations, corpusTextInfo), with the
\* names of the exported annotations for annotations
_set_annotation_info(annotations, corpusTextInfo) ==
    LET auto_token == any_in(AUTO_TOKEN, annotations)
        auto_sent == any_in(AUTO_SENT, annotations)
        auto_baseform == any_in(AUTO_BASEFORM, annotations)
        auto_pos == any_in(AUTO_POS, annotations)
        segmentation ==
            IF auto_token \/ auto_sent
            THEN << annotationInfo("segmentation",
                                   (IF auto_sent THEN <<"sentence">> ELSE <<>>)
                                   \o (IF auto_token THEN <<"word">> ELSE <<>>), TRUE) >>
            ELSE <<>>
        lemmatization ==
            IF auto_baseform THEN << annotationInfo("lemmatization", <<>>, TRUE) >> ELSE <<>>
        posTagging ==
            IF auto_pos
            THEN << annotationInfo("morphosyntacticAnnotation-posTagging", <<>>, TRUE) >>
            ELSE <<>>
    IN  append_rest(corpusTextInfo, segmentation \o lemmatization \o posTagging)

(***************************************************************************)
(* SpecMetashare: calls of the two functions on bounded inputs             *)
(***************************************************************************)
\* the longest list of items and of annotations of one call
MaxItems == 3

\* the children of distributionInfo in a template: without a licenceInfo,
\* with one, with two in a row, and no children at all
DistInfoTemplates ==
    {<<>>,
     << Leaf("availability", "available-unrestrictedUse"), Leaf("iprHolder", "") >>,
     << Leaf("availability", "available-unrestrictedUse"), Leaf("licenceInfo", "template 1"),
        Leaf("iprHolder", "") >>,
     << Leaf("availability", "available-unrestrictedUse"), Leaf("licenceInfo", "template 1"),
        Leaf("licenceInfo", "template 2"), Leaf("iprHolder", "") >>}

LicenceItems ==
    {NullItem,
     [download |-> "https://example.org/1.zip", access |-> "https://example.org/1",
      licence |-> "CC0", info |-> "Cite it."],
     [download |-> "https://example.org/2.zip", access |-> "https://example.org/2"]}

ItemLists == UNION {[1..n -> LicenceItems] : n \in 0..MaxItems}

\* the children of corpusTextInfo in a template
CorpusTextInfoTemplate == << Leaf("mediaType", "text"), Leaf("sizeInfo", "") >>

AnnotationNames ==
    {"segment.token", "segment.sentence", "<token>:saldo.baseform", "<token>:hunpos.pos",
     "<text>:misc.id"}

AnnotationLists == UNION {[1..n -> AnnotationNames] : n \in 0..MaxItems}

InitMetashare ==
    /\ call = NoCall
    /\ NoCorpus
    /\ md_contact = SBX_DEFAULT_SENTINEL
    /\ AggregatorIdle

Call_set_licence_info ==
    /\ \E items \in ItemLists, distInfo \in DistInfoTemplates, download \in BOOLEAN :
          \E r \in {_set_licence_info(items, distInfo, download)} :
              call' = [fn |-> "_set_licence_info",
                       args |-> [items |-> items, distInfo |-> distInfo, download |-> download],
                       raised |-> r.raised, warnings |-> <<>>, returns |-> r.children]
    /\ UNCHANGED <<aggregator_vars, corpus_vars>>

Call_set_annotation_info ==
    /\ \E annotations \in AnnotationLists :
          \E r \in {_set_annotation_info(annotations, CorpusTextInfoTemplate)} :
              call' = [fn |-> "_set_annotation_info",
                       args |-> [annotations |-> annotations,
                                 corpusTextInfo |-> CorpusTextInfoTemplate],
                       raised |-> r.raised, warnings |-> <<>>, returns |-> r.children]
    /\ UNCHANGED <<aggregator_vars, corpus_vars>>

NextMetashare == Call_set_licence_info \/ Call_set_annotation_info

SpecMetashare == InitMetashare /\ [][NextMetashare]_vars

(***************************************************************************)
(* Properties of the XML serializer                                        *)
(***************************************************************************)
IsLicenceInfo(e) == e.tag = "licenceInfo"

IsNoLicenceInfo(e) == e.tag # "licenceInfo"

IsItem(item) == item # NullItem

\* the positions of the licenceInfo blocks among the children
LicencePositions(children) == {i \in DOMAIN children : IsLicenceInfo(children[i])}

\* the blocks of the items of the call that are not null, in their order
BlocksOfItems ==
    LET items == SelectSeq(call.args.items, IsItem)
    IN  [i \in DOMAIN items |-> licenceInfo(items[i], call.args.download)]

\* C21: a call of _set_licence_info returns with the licenceInfo blocks of
\* the template followed by one block for every item that is not null, in
\* the order of the items, as one run of neighbours among the children, and
\* with the other children in the order they had.
C21_LicenceBlocksInOneRun ==
    Called("_set_licence_info") =>
        /\ call.raised = None
        /\ SelectSeq(call.returns, IsLicenceInfo) =
              SelectSeq(call.args.distInfo, IsLicenceInfo) \o BlocksOfItems
        /\ SelectSeq(call.returns, IsNoLicenceInfo) =
              SelectSeq(call.args.distInfo, IsNoLicenceInfo)
        /\ \A i, j \in LicencePositions(call.returns) :
              \A k \in i..j : k \in LicencePositions(call.returns)

\* the annotationInfo blocks the call appended to corpusTextInfo
AppendedBlocks == SubSeq(call.returns, Len(call.args.corpusTextInfo) + 1, Len(call.returns))

BlockType(block) == block.sub[1].text

\* the texts of the children of a block with a tag, in their order
TextsOf(block, tag) ==
    LET HasTag(e) == e.tag = tag
        found == SelectSeq(block.sub, HasTag)
    IN  [i \in DOMAIN found |-> found[i].text]

\* some exported annotation contains one of the names
SomeMatch(names) == any_in(names, call.args.annotations)

\* C22: a call of _set_annotation_info returns with the blocks it appends in
\* the order segmentation, lemmatization, part-of-speech; a block is there
\* if and only if an annotation matches its category, the segmentation block
\* lists the level sentence before the level word and the matched levels
\* only, and every block has the mode automatic.
C22_AnnotationBlocksInFixedOrder ==
    Called("_set_annotation_info") =>
        LET types == [i \in DOMAIN AppendedBlocks |-> BlockType(AppendedBlocks[i])]
        IN  /\ call.raised = None
            /\ SubSeq(call.returns, 1, Len(call.args.corpusTextInfo)) = call.args.corpusTextInfo
            /\ types = (IF SomeMatch(AUTO_TOKEN) \/ SomeMatch(AUTO_SENT)
                         THEN <<"segmentation">> ELSE <<>>)
                        \o (IF SomeMatch(AUTO_BASEFORM) THEN <<"lemmatization">> ELSE <<>>)
                        \o (IF SomeMatch(AUTO_POS)
                            THEN <<"morphosyntacticAnnotation-posTagging">> ELSE <<>>)
            /\ \A i \in DOMAIN AppendedBlocks :
                  /\ TextsOf(AppendedBlocks[i], "annotationMode") = <<"automatic">>
                  /\ TextsOf(AppendedBlocks[i], "segmentationLevel") =
                        IF types[i] # "segmentation" THEN <<>>
                        ELSE (IF SomeMatch(AUTO_SENT) THEN <<"sentence">> ELSE <<>>)
                             \o (IF SomeMatch(AUTO_TOKEN) THEN <<"word">> ELSE <<>>)

====
